---------------------------- MODULE Spec2Model ----------------------------
(***************************************************************************)
(* A model of the Xiangqi engine (crates/engine): the board with its       *)
(* bitboards, Zobrist hash, history and incremental evaluation scores,     *)
(* the attack tables, move generation, make/unmake and the iterative-      *)
(* deepening negamax search.                                               *)
(*                                                                         *)
(* A Bitboard (u128) is modelled as the set of the indices of its set      *)
(* bits: & is \cap, | is \cup, ^ is the symmetric difference,              *)
(* trailing_zeros is the least element and 127 - leading_zeros the         *)
(* greatest.  A 64-bit Zobrist hash is modelled as the set of the keys     *)
(* that have been XORed into it an odd number of times.                    *)
(***************************************************************************)
EXTENDS Integers, Sequences, FiniteSets, TLC

\* ------------------------------------------------------------------------
\* Bit-set helpers
\* ------------------------------------------------------------------------

Xor(a, b) == (a \ b) \cup (b \ a)

trailing_zeros(bb) == CHOOSE x \in bb : \A y \in bb : x <= y

highest_bit(bb) == CHOOSE x \in bb : \A y \in bb : x >= y

popcount(bb) == Cardinality(bb)

\* The bits of bb, lowest first: the order in which a loop that takes
\* trailing_zeros and clears that bit visits them.
BitsAsc(bb) ==
  [k \in 1..Cardinality(bb) |->
     CHOOSE s \in bb : Cardinality({t \in bb : t < s}) = k - 1]

Abs(x) == IF x < 0 THEN -x ELSE x

Range(seq) == {seq[i] : i \in 1..Len(seq)}

\* ------------------------------------------------------------------------
\* constants.rs: pieces and players
\* ------------------------------------------------------------------------

BKing == -1
BGuard == -2
BBishop == -3
BHorse == -4
BRook == -5
BCannon == -6
BPawn == -7
Empty == 0
RKing == 1
RGuard == 2
RBishop == 3
RHorse == 4
RRook == 5
RCannon == 6
RPawn == 7

Pieces == (-7..-1) \cup (1..7)

MATE_VALUE == 10000

PIECE_VALUES == <<0, 0, 100, 100, 450, 900, 500, 100>>

value(p) == PIECE_VALUES[Abs(p) + 1]

is_major(p) == p \in {RRook, BRook, RHorse, BHorse, RCannon, BCannon}

player(p) == IF p > 0 THEN "Red" ELSE IF p < 0 THEN "Black" ELSE "None"

opponent(pl) == IF pl = "Red" THEN "Black" ELSE "Red"

abs_val(p) == Abs(p)

from_abs(val) == IF val \in Pieces THEN val ELSE Empty

get_bb_index(p) == IF p > 0 THEN p - 1 ELSE Abs(p) - 1 + 7

get_zobrist_idx(p) == IF p < 0 THEN Abs(p) - 1 ELSE p + 6

get_bb_idx(pl) == IF pl = "Red" THEN 0 ELSE 1

from_fen_char(ch) ==
  CASE ch = "k" -> BKing [] ch = "a" -> BGuard [] ch = "b" -> BBishop
    [] ch = "n" -> BHorse [] ch = "r" -> BRook [] ch = "c" -> BCannon
    [] ch = "p" -> BPawn [] ch = "K" -> RKing [] ch = "A" -> RGuard
    [] ch = "B" -> RBishop [] ch = "N" -> RHorse [] ch = "R" -> RRook
    [] ch = "C" -> RCannon [] ch = "P" -> RPawn [] OTHER -> Empty

to_digit(ch) ==
  CASE ch = "0" -> 0 [] ch = "1" -> 1 [] ch = "2" -> 2 [] ch = "3" -> 3
    [] ch = "4" -> 4 [] ch = "5" -> 5 [] ch = "6" -> 6 [] ch = "7" -> 7
    [] ch = "8" -> 8 [] ch = "9" -> 9 [] OTHER -> -1

\* ------------------------------------------------------------------------
\* move.rs: the packed move
\* ------------------------------------------------------------------------

MoveNew(from, to, is_cap) == from + to * 128 + (IF is_cap THEN 16384 ELSE 0)

from_sq(mv) == mv % 128

to_sq(mv) == (mv \div 128) % 128

is_capture(mv) == (mv \div 16384) % 2 # 0

NullMove == MoveNew(0, 0, FALSE)

\* ------------------------------------------------------------------------
\* move_gen.rs: attack tables
\* ------------------------------------------------------------------------

Squares == 0..89

sq_to_idx(r, c) == r * 9 + c

is_valid(r, c) == r >= 0 /\ r < 10 /\ c >= 0 /\ c < 9

InPalace(nr, nc) ==
  nc >= 3 /\ nc <= 5 /\ ((nr >= 0 /\ nr <= 2) \/ (nr >= 7 /\ nr <= 9))

KingDirs == {<<0, 1>>, <<0, -1>>, <<1, 0>>, <<-1, 0>>}

GuardDirs == {<<1, 1>>, <<1, -1>>, <<-1, 1>>, <<-1, -1>>}

BishopDirs == {<<2, 2>>, <<2, -2>>, <<-2, 2>>, <<-2, -2>>}

HorseDirs == {<<2, 1>>, <<2, -1>>, <<-2, 1>>, <<-2, -1>>,
              <<1, 2>>, <<1, -2>>, <<-1, 2>>, <<-1, -2>>}

PalaceSteps(sq, dirs) ==
  {sq_to_idx((sq \div 9) + d[1], (sq % 9) + d[2]) :
     d \in {e \in dirs : InPalace((sq \div 9) + e[1], (sq % 9) + e[2])}}

BoardSteps(sq, dirs) ==
  {sq_to_idx((sq \div 9) + d[1], (sq % 9) + d[2]) :
     d \in {e \in dirs : is_valid((sq \div 9) + e[1], (sq % 9) + e[2])}}

king == [sq \in Squares |-> PalaceSteps(sq, KingDirs)]

\* The guard table without the bounds of the palace.
guard_on_any_square == [sq \in Squares |-> BoardSteps(sq, GuardDirs)]

guard == [sq \in Squares |-> PalaceSteps(sq, GuardDirs)]

bishop == [sq \in Squares |-> BoardSteps(sq, BishopDirs)]

horse == [sq \in Squares |-> BoardSteps(sq, HorseDirs)]

bishop_legs(from, to) ==
  IF to \in bishop[from]
  THEN sq_to_idx((from \div 9) + ((to \div 9) - (from \div 9)) \div 2,
                 (from % 9) + ((to % 9) - (from % 9)) \div 2)
  ELSE 0

horse_legs(from, to) ==
  IF to \in horse[from]
  THEN LET r == from \div 9
           c == from % 9
           dr == (to \div 9) - r
           dc == (to % 9) - c
       IN IF Abs(dr) = 2 THEN sq_to_idx(r + dr \div 2, c)
                         ELSE sq_to_idx(r, c + dc \div 2)
  ELSE 0

RedPawnTargets(sq) ==
  LET r == sq \div 9
      c == sq % 9
  IN (IF is_valid(r - 1, c) THEN {sq_to_idx(r - 1, c)} ELSE {})
     \cup (IF r < 5
           THEN (IF is_valid(r, c - 1) THEN {sq_to_idx(r, c - 1)} ELSE {})
                \cup (IF is_valid(r, c + 1) THEN {sq_to_idx(r, c + 1)} ELSE {})
           ELSE {})

BlackPawnTargets(sq) ==
  LET r == sq \div 9
      c == sq % 9
  IN (IF is_valid(r + 1, c) THEN {sq_to_idx(r + 1, c)} ELSE {})
     \cup (IF r > 4
           THEN (IF is_valid(r, c - 1) THEN {sq_to_idx(r, c - 1)} ELSE {})
                \cup (IF is_valid(r, c + 1) THEN {sq_to_idx(r, c + 1)} ELSE {})
           ELSE {})

pawn == [idx \in 0..1 |-> [sq \in Squares |->
           IF idx = 0 THEN RedPawnTargets(sq) ELSE BlackPawnTargets(sq)]]

North == 0
East == 1
South == 2
West == 3

RaySquares(dir, sq) ==
  LET r == sq \div 9
      c == sq % 9
  IN CASE dir = North -> {sq_to_idx(i, c) : i \in 0..(r - 1)}
       [] dir = East -> {sq_to_idx(r, i) : i \in (c + 1)..8}
       [] dir = South -> {sq_to_idx(i, c) : i \in (r + 1)..9}
       [] dir = West -> {sq_to_idx(r, i) : i \in 0..(c - 1)}

rays == [dir \in 0..3 |-> [sq \in Squares |-> RaySquares(dir, sq)]]

black_half_mask == 0..44

red_half_mask == 45..89

\* ------------------------------------------------------------------------
\* move_gen.rs: sliding pieces
\* ------------------------------------------------------------------------

FirstAlong(dir, blockers) ==
  IF dir = North \/ dir = West THEN highest_bit(blockers)
  ELSE trailing_zeros(blockers)

RookRay(dir, sq, occupied) ==
  LET ray == rays[dir][sq]
      blockers == occupied \cap ray
  IN IF blockers # {}
     THEN LET first_blocker == FirstAlong(dir, blockers)
          IN Xor(ray, rays[dir][first_blocker]) \cup {first_blocker}
     ELSE ray

\* The cannon branch replaced by the rook's: the first blocker is a
\* destination and nothing beyond it is.
CannonRay_without_screen(dir, sq, occupied) == RookRay(dir, sq, occupied)

CannonRay(dir, sq, occupied) ==
  LET ray == rays[dir][sq]
      blockers == occupied \cap ray
  IN IF blockers # {}
     THEN LET screen == FirstAlong(dir, blockers)
              remaining_blockers == Xor(blockers, {screen})
          IN Xor(Xor(ray, rays[dir][screen]), {screen})
             \cup (IF remaining_blockers # {}
                   THEN {FirstAlong(dir, remaining_blockers)} ELSE {})
     ELSE ray

get_sliding_piece_moves(sq, occupied, is_cannon) ==
  UNION {IF is_cannon THEN CannonRay(dir, sq, occupied)
         ELSE RookRay(dir, sq, occupied) : dir \in 0..3}

get_rook_moves_bb(sq, occupied) == get_sliding_piece_moves(sq, occupied, FALSE)

get_cannon_moves_bb(sq, occupied) == get_sliding_piece_moves(sq, occupied, TRUE)

\* ------------------------------------------------------------------------
\* zobrist.rs: the key table (one distinct key per (piece, rank, file), and
\* one for the side to move)
\* ------------------------------------------------------------------------

ZOBRIST_KEYS(z, r, c) == {z * 90 + r * 9 + c}

ZOBRIST_PLAYER == {14 * 90}

\* ------------------------------------------------------------------------
\* evaluate.rs: material values and piece-square tables
\* ------------------------------------------------------------------------

MATERIAL_VALUES == <<0, 10000, 200, 200, 450, 900, 500, 100>>

KING_PST_MG ==
  <<<<0, 0, 0, 8, 8, 8, 0, 0, 0>>,
     <<0, 0, 0, 8, 8, 8, 0, 0, 0>>,
     <<0, 0, 0, 6, 6, 6, 0, 0, 0>>,
     <<0, 0, 0, 0, 0, 0, 0, 0, 0>>,
     <<0, 0, 0, 0, 0, 0, 0, 0, 0>>,
     <<0, 0, 0, 0, 0, 0, 0, 0, 0>>,
     <<0, 0, 0, 0, 0, 0, 0, 0, 0>>,
     <<0, 0, 0, 6, 6, 6, 0, 0, 0>>,
     <<0, 0, 0, 8, 8, 8, 0, 0, 0>>,
     <<0, 0, 0, 8, 8, 8, 0, 0, 0>>>>

GUARD_PST_MG ==
  <<<<0, 0, 0, 20, 0, 20, 0, 0, 0>>,
     <<0, 0, 0, 0, 23, 0, 0, 0, 0>>,
     <<0, 0, 0, 20, 0, 20, 0, 0, 0>>,
     <<0, 0, 0, 0, 0, 0, 0, 0, 0>>,
     <<0, 0, 0, 0, 0, 0, 0, 0, 0>>,
     <<0, 0, 0, 0, 0, 0, 0, 0, 0>>,
     <<0, 0, 0, 0, 0, 0, 0, 0, 0>>,
     <<0, 0, 0, 20, 0, 20, 0, 0, 0>>,
     <<0, 0, 0, 0, 23, 0, 0, 0, 0>>,
     <<0, 0, 0, 20, 0, 20, 0, 0, 0>>>>

BISHOP_PST_MG ==
  <<<<0, 0, 20, 0, 0, 0, 20, 0, 0>>,
     <<0, 0, 0, 0, 0, 0, 0, 0, 0>>,
     <<0, 0, 0, 0, 23, 0, 0, 0, 0>>,
     <<0, 0, 0, 0, 0, 0, 0, 0, 0>>,
     <<0, 0, 20, 0, 0, 0, 20, 0, 0>>,
     <<0, 0, 20, 0, 0, 0, 20, 0, 0>>,
     <<0, 0, 0, 0, 0, 0, 0, 0, 0>>,
     <<0, 0, 0, 0, 23, 0, 0, 0, 0>>,
     <<0, 0, 0, 0, 0, 0, 0, 0, 0>>,
     <<0, 0, 20, 0, 0, 0, 20, 0, 0>>>>

HORSE_PST_MG ==
  <<<<90, 90, 90, 96, 90, 96, 90, 90, 90>>,
     <<90, 96, 103, 97, 94, 97, 103, 96, 90>>,
     <<92, 98, 99, 103, 99, 103, 99, 98, 92>>,
     <<93, 108, 100, 107, 100, 107, 100, 108, 93>>,
     <<90, 100, 99, 103, 104, 103, 99, 100, 90>>,
     <<90, 98, 101, 102, 103, 102, 101, 98, 90>>,
     <<92, 94, 98, 95, 98, 95, 98, 94, 92>>,
     <<93, 92, 94, 95, 92, 95, 94, 92, 93>>,
     <<85, 90, 92, 93, 78, 93, 92, 90, 85>>,
     <<88, 85, 90, 88, 90, 88, 90, 85, 88>>>>

ROOK_PST_MG ==
  <<<<206, 208, 207, 213, 214, 213, 207, 208, 206>>,
     <<206, 212, 209, 216, 233, 216, 209, 212, 206>>,
     <<206, 208, 207, 214, 216, 214, 207, 208, 206>>,
     <<206, 213, 213, 216, 216, 216, 213, 213, 206>>,
     <<208, 211, 211, 214, 215, 214, 211, 211, 208>>,
     <<208, 212, 212, 214, 215, 214, 212, 212, 208>>,
     <<204, 209, 204, 212, 214, 212, 204, 209, 204>>,
     <<198, 208, 204, 212, 212, 212, 204, 208, 198>>,
     <<200, 208, 206, 212, 200, 212, 206, 208, 200>>,
     <<194, 206, 204, 212, 200, 212, 204, 206, 194>>>>

CANNON_PST_MG ==
  <<<<100, 100, 96, 91, 90, 91, 96, 100, 100>>,
     <<98, 98, 96, 92, 89, 92, 96, 98, 98>>,
     <<97, 97, 96, 91, 92, 91, 96, 97, 97>>,
     <<96, 99, 99, 98, 100, 98, 99, 99, 96>>,
     <<96, 96, 96, 96, 100, 96, 96, 96, 96>>,
     <<95, 96, 99, 96, 100, 96, 99, 96, 95>>,
     <<96, 96, 96, 96, 96, 96, 96, 96, 96>>,
     <<97, 96, 100, 99, 101, 99, 100, 96, 97>>,
     <<96, 97, 98, 98, 98, 98, 98, 97, 96>>,
     <<96, 96, 97, 99, 99, 99, 97, 96, 96>>>>

PAWN_PST_MG ==
  <<<<9, 9, 9, 11, 13, 11, 9, 9, 9>>,
     <<19, 24, 34, 42, 44, 42, 34, 24, 19>>,
     <<19, 24, 32, 37, 37, 37, 32, 24, 19>>,
     <<19, 23, 27, 29, 30, 29, 27, 23, 19>>,
     <<14, 18, 20, 27, 29, 27, 20, 18, 14>>,
     <<7, 0, 13, 0, 16, 0, 13, 0, 7>>,
     <<7, 0, 7, 0, 15, 0, 7, 0, 7>>,
     <<0, 0, 0, 0, 0, 0, 0, 0, 0>>,
     <<0, 0, 0, 0, 0, 0, 0, 0, 0>>,
     <<0, 0, 0, 0, 0, 0, 0, 0, 0>>>>

PAWN_PST_EG ==
  <<<<20, 20, 20, 25, 30, 25, 20, 20, 20>>,
     <<40, 50, 60, 70, 75, 70, 60, 50, 40>>,
     <<40, 50, 60, 65, 70, 65, 60, 50, 40>>,
     <<40, 50, 55, 60, 60, 60, 55, 50, 40>>,
     <<30, 40, 45, 50, 50, 50, 45, 40, 30>>,
     <<15, 20, 25, 30, 30, 30, 25, 20, 15>>,
     <<10, 15, 20, 20, 20, 20, 20, 15, 10>>,
     <<5, 5, 5, 5, 5, 5, 5, 5, 5>>,
     <<0, 0, 0, 0, 0, 0, 0, 0, 0>>,
     <<0, 0, 0, 0, 0, 0, 0, 0, 0>>>>

get_pst_mg(p) ==
  CASE p \in {RKing, BKing} -> KING_PST_MG
    [] p \in {RGuard, BGuard} -> GUARD_PST_MG
    [] p \in {RBishop, BBishop} -> BISHOP_PST_MG
    [] p \in {RHorse, BHorse} -> HORSE_PST_MG
    [] p \in {RRook, BRook} -> ROOK_PST_MG
    [] p \in {RCannon, BCannon} -> CANNON_PST_MG
    [] p \in {RPawn, BPawn} -> PAWN_PST_MG
    [] OTHER -> KING_PST_MG

get_pst_eg(p) == IF p \in {RPawn, BPawn} THEN PAWN_PST_EG ELSE get_pst_mg(p)

\* Returns <<mg, eg>> for a piece on a square, from Red's perspective.
get_pst_scores(piece, sq) ==
  LET pst_r == 9 - (sq \div 9)
      pst_c == 8 - (sq % 9)
      mg_pst == get_pst_mg(piece)[pst_r + 1][pst_c + 1]
      eg_pst == get_pst_eg(piece)[pst_r + 1][pst_c + 1]
  IN IF player(piece) = "Red" THEN <<mg_pst, eg_pst>> ELSE <<-mg_pst, -eg_pst>>

RECURSIVE SumOver(_, _, _)
\* The sum of f[x] over the bits of bb (a loop with an accumulator).
SumOver(bb, f, acc) ==
  IF bb = {} THEN acc
  ELSE LET s == trailing_zeros(bb) IN SumOver(bb \ {s}, f, acc + f[s])

calculate_material_score(b) ==
  LET term == [i \in 1..7 |->
                 popcount(b.piece_bitboards[get_bb_index(from_abs(i))]) * MATERIAL_VALUES[i + 1]
                 - popcount(b.piece_bitboards[get_bb_index(from_abs(-i))]) * MATERIAL_VALUES[i + 1]]
  IN SumOver(1..7, term, 0)

\* The contribution of piece bitboard i to the <<mg, eg>> piece-square sums.
PstOfBitboard(b, i, tab) ==
  LET piece_bb == b.piece_bitboards[i]
  IN IF piece_bb = {} THEN 0
     ELSE LET piece_type == b.board[trailing_zeros(piece_bb)]
              pl == player(piece_type)
              table == IF tab = "mg" THEN get_pst_mg(piece_type) ELSE get_pst_eg(piece_type)
              one == [sq \in piece_bb |->
                        LET r == sq \div 9
                            c == sq % 9
                            pst_r == IF pl = "Red" THEN 9 - r ELSE r
                            pst_c == IF pl = "Red" THEN 8 - c ELSE c
                        IN IF pl = "Red" THEN table[pst_r + 1][pst_c + 1]
                           ELSE -table[pst_r + 1][pst_c + 1]]
          IN SumOver(piece_bb, one, 0)

calculate_pst_scores(b) ==
  <<SumOver(0..13, [i \in 0..13 |-> PstOfBitboard(b, i, "mg")], 0),
    SumOver(0..13, [i \in 0..13 |-> PstOfBitboard(b, i, "eg")], 0)>>

calculate_full_scores(b) == <<calculate_material_score(b)>> \o calculate_pst_scores(b)

\* ------------------------------------------------------------------------
\* bitboard.rs: the board
\* ------------------------------------------------------------------------

MAX_HISTORY == 256

\* An array: the function f with all its values computed.
Array(f) == f @@ <<>>

BoardNew ==
  [piece_bitboards |-> Array([i \in 0..13 |-> {}]),
   color_bitboards |-> Array([i \in 0..1 |-> {}]),
   board |-> Array([s \in Squares |-> Empty]),
   player_to_move |-> "Red",
   hash_key |-> {},
   history |-> Array([i \in 0..(MAX_HISTORY - 1) |-> {}]),
   history_ply |-> 0,
   material_score |-> 0,
   mg_pst_score |-> 0,
   eg_pst_score |-> 0]

set_piece(b, sq, piece) ==
  [b EXCEPT !.board[sq] = piece,
            !.piece_bitboards[get_bb_index(piece)] = @ \cup {sq},
            !.color_bitboards[get_bb_idx(player(piece))] = @ \cup {sq},
            !.hash_key = Xor(@, ZOBRIST_KEYS(get_zobrist_idx(piece), sq \div 9, sq % 9))]

\* One character of the layout field: st is the board with the loop's
\* rank and file counters.
FenChar(st, ch) ==
  IF ch = "/" THEN [st EXCEPT !.rank = @ + 1, !.file = 0]
  ELSE IF to_digit(ch) >= 0 THEN [st EXCEPT !.file = @ + to_digit(ch)]
  ELSE [st EXCEPT !.b = set_piece(@, st.rank * 9 + st.file, from_fen_char(ch)),
                  !.file = @ + 1]

RECURSIVE FenLayout(_, _, _, _)
\* The loop of from_fen over characters lo..hi of the layout (evaluated in
\* halves).
FenLayout(st, layout, lo, hi) ==
  IF lo > hi THEN st
  ELSE IF lo = hi THEN FenChar(st, layout[lo])
  ELSE LET mid == (lo + hi) \div 2
           left == FenLayout(st, layout, lo, mid)
       IN IF left.rank >= 0 THEN FenLayout(left, layout, mid + 1, hi) ELSE left

\* The three score fields set from <<material, mg, eg>>.
SetScores(b, scores) ==
  [b EXCEPT !.material_score = scores[1], !.mg_pst_score = scores[2],
            !.eg_pst_score = scores[3]]

\* history[history_ply] = hash_key.
RecordHistory(b) == [b EXCEPT !.history[b.history_ply] = b.hash_key]

\* The active colour field: Red moves on "w", Black on anything else.
SetPlayer(b, pl) ==
  [b EXCEPT !.player_to_move = pl,
            !.hash_key = IF pl = "Black" THEN Xor(@, ZOBRIST_PLAYER) ELSE @]

\* The end of from_fen: the scores from scratch, then the first history entry.
FinishFen(b) == RecordHistory(SetScores(b, calculate_full_scores(b)))

\* fen is the sequence of the whitespace-separated fields: fen[1] the layout
\* (a sequence of characters), fen[2] the active colour.
from_fen(fen) ==
  FinishFen(SetPlayer(FenLayout([b |-> BoardNew, rank |-> 0, file |-> 0],
                                fen[1], 1, Len(fen[1])).b,
                      IF fen[2] = "w" THEN "Red" ELSE "Black"))

occupied_bitboard(b) == b.color_bitboards[0] \cup b.color_bitboards[1]

update_scores_for_move(b, moving_piece, captured_piece, from, to) ==
  LET pf == get_pst_scores(moving_piece, from)
      pt == get_pst_scores(moving_piece, to)
      pc == IF captured_piece # Empty THEN get_pst_scores(captured_piece, to) ELSE <<0, 0>>
      captured_value == MATERIAL_VALUES[abs_val(captured_piece) + 1]
  IN [b EXCEPT !.mg_pst_score = @ - pf[1] - pc[1] + pt[1],
               !.eg_pst_score = @ - pf[2] - pc[2] + pt[2],
               !.material_score =
                  IF captured_piece # Empty
                  THEN (IF player(captured_piece) = "Black" THEN @ + captured_value
                        ELSE @ - captured_value)
                  ELSE @]

\* A variant of update_board_and_bitboards_for_move that leaves the captured
\* piece in its bitboards.
update_board_and_bitboards_keep_captured(b, moving_piece, captured_piece, from, to) ==
  [b EXCEPT !.board[from] = Empty,
            !.board[to] = moving_piece,
            !.piece_bitboards[get_bb_index(moving_piece)] = Xor(@, {from} \cup {to}),
            !.color_bitboards[get_bb_idx(b.player_to_move)] = Xor(@, {from} \cup {to})]

update_board_and_bitboards_for_move(b, moving_piece, captured_piece, from, to) ==
  LET move_mask == {from} \cup {to}
      b1 == [b EXCEPT !.board[from] = Empty]
      b2 == [b1 EXCEPT !.board[to] = moving_piece]
      b3 == [b2 EXCEPT !.piece_bitboards[get_bb_index(moving_piece)] = Xor(@, move_mask)]
      b4 == [b3 EXCEPT !.color_bitboards[get_bb_idx(b.player_to_move)] = Xor(@, move_mask)]
  IN IF captured_piece # Empty
     THEN LET b5 == [b4 EXCEPT !.piece_bitboards[get_bb_index(captured_piece)] = @ \ {to}]
          IN [b5 EXCEPT !.color_bitboards[get_bb_idx(player(captured_piece))] = @ \ {to}]
     ELSE b4

\* A variant of update_hash_for_move without the captured piece's key.
update_hash_for_move_no_capture(b, moving_piece, captured_piece, from, to) ==
  [b EXCEPT !.hash_key =
     Xor(Xor(@, ZOBRIST_KEYS(get_zobrist_idx(moving_piece), from \div 9, from % 9)),
         ZOBRIST_KEYS(get_zobrist_idx(moving_piece), to \div 9, to % 9))]

update_hash_for_move(b, moving_piece, captured_piece, from, to) ==
  LET moving_z_idx == get_zobrist_idx(moving_piece)
      h1 == Xor(b.hash_key, ZOBRIST_KEYS(moving_z_idx, from \div 9, from % 9))
      h2 == Xor(h1, ZOBRIST_KEYS(moving_z_idx, to \div 9, to % 9))
      h3 == IF captured_piece # Empty
            THEN Xor(h2, ZOBRIST_KEYS(get_zobrist_idx(captured_piece), to \div 9, to % 9))
            ELSE h2
  IN [b EXCEPT !.hash_key = h3]

\* move_piece yields the board after the move and the captured piece.
\* move_piece returning the piece that moved instead of the piece captured.
move_piece_returns_mover(b, mv) ==
  LET from == from_sq(mv)
      to == to_sq(mv)
      moving_piece == b.board[from]
      captured_piece == b.board[to]
      b1 == update_scores_for_move(b, moving_piece, captured_piece, from, to)
      b2 == update_board_and_bitboards_for_move(b1, moving_piece, captured_piece, from, to)
      b3 == update_hash_for_move(b2, moving_piece, captured_piece, from, to)
      b4 == [b3 EXCEPT !.player_to_move = opponent(@),
                       !.hash_key = Xor(@, ZOBRIST_PLAYER)]
  IN [b |-> RecordHistory([b4 EXCEPT !.history_ply = @ + 1]),
      captured |-> moving_piece]

move_piece(b, mv) ==
  LET from == from_sq(mv)
      to == to_sq(mv)
      moving_piece == b.board[from]
      captured_piece == b.board[to]
      b1 == update_scores_for_move(b, moving_piece, captured_piece, from, to)
      b2 == update_board_and_bitboards_for_move(b1, moving_piece, captured_piece, from, to)
      b3 == update_hash_for_move(b2, moving_piece, captured_piece, from, to)
      b4 == [b3 EXCEPT !.player_to_move = opponent(@),
                       !.hash_key = Xor(@, ZOBRIST_PLAYER)]
  IN [b |-> RecordHistory([b4 EXCEPT !.history_ply = @ + 1]),
      captured |-> captured_piece]

update_scores_for_unmove(b, moving_piece, captured_piece, from, to) ==
  LET pt == get_pst_scores(moving_piece, to)
      pf == get_pst_scores(moving_piece, from)
      pc == IF captured_piece # Empty THEN get_pst_scores(captured_piece, to) ELSE <<0, 0>>
      captured_value == MATERIAL_VALUES[abs_val(captured_piece) + 1]
  IN [b EXCEPT !.mg_pst_score = @ - pt[1] + pf[1] + pc[1],
               !.eg_pst_score = @ - pt[2] + pf[2] + pc[2],
               !.material_score =
                  IF captured_piece # Empty
                  THEN (IF player(captured_piece) = "Black" THEN @ - captured_value
                        ELSE @ + captured_value)
                  ELSE @]

update_board_and_bitboards_for_unmove(b, moving_piece, captured_piece, from, to) ==
  LET move_mask == {from} \cup {to}
      b1 == [b EXCEPT !.board[from] = moving_piece]
      b2 == [b1 EXCEPT !.board[to] = captured_piece]
      b3 == [b2 EXCEPT !.piece_bitboards[get_bb_index(moving_piece)] = Xor(@, move_mask)]
      b4 == [b3 EXCEPT !.color_bitboards[get_bb_idx(player(moving_piece))] = Xor(@, move_mask)]
  IN IF captured_piece # Empty
     THEN LET b5 == [b4 EXCEPT !.piece_bitboards[get_bb_index(captured_piece)] = @ \cup {to}]
          IN [b5 EXCEPT !.color_bitboards[get_bb_idx(player(captured_piece))] = @ \cup {to}]
     ELSE b4

\* A variant of update_hash_for_unmove that leaves the hash as the move left
\* it.
update_hash_for_unmove_skipped(b, moving_piece, captured_piece, from, to) == b

update_hash_for_unmove(b, moving_piece, captured_piece, from, to) ==
  LET moving_z_idx == get_zobrist_idx(moving_piece)
      h1 == Xor(b.hash_key, ZOBRIST_KEYS(moving_z_idx, from \div 9, from % 9))
      h2 == Xor(h1, ZOBRIST_KEYS(moving_z_idx, to \div 9, to % 9))
      h3 == IF captured_piece # Empty
            THEN Xor(h2, ZOBRIST_KEYS(get_zobrist_idx(captured_piece), to \div 9, to % 9))
            ELSE h2
  IN [b EXCEPT !.hash_key = h3]

unmove_piece(b, mv, captured_piece) ==
  LET b0 == [b EXCEPT !.history_ply = @ - 1]
      from == from_sq(mv)
      to == to_sq(mv)
      moving_piece == b0.board[to]
      b1 == [b0 EXCEPT !.player_to_move = opponent(@),
                       !.hash_key = Xor(@, ZOBRIST_PLAYER)]
      b2 == update_scores_for_unmove(b1, moving_piece, captured_piece, from, to)
      b3 == update_board_and_bitboards_for_unmove(b2, moving_piece, captured_piece, from, to)
  IN update_hash_for_unmove(b3, moving_piece, captured_piece, from, to)

\* ------------------------------------------------------------------------
\* movelist.rs: a list of at most MAX_MOVES moves
\* ------------------------------------------------------------------------

MAX_MOVES == 256

MoveListAdd(moves, mv) == IF Len(moves) < MAX_MOVES THEN Append(moves, mv) ELSE moves

\* Adding the moves of `more` one by one: those beyond MAX_MOVES are dropped.
MoveListAddAll(moves, more) ==
  IF Len(moves) + Len(more) <= MAX_MOVES THEN moves \o more
  ELSE SubSeq(moves \o more, 1, MAX_MOVES)

\* ------------------------------------------------------------------------
\* bitboard.rs: pseudo-legal move generation
\* ------------------------------------------------------------------------

BishopMoves(from, occupied, half_mask) ==
  {to \in bishop[from] \cap half_mask : bishop_legs(from, to) \notin occupied}

\* HorseMoves with no leg to block the horse.
HorseMoves_without_legs(from, occupied) == horse[from]

HorseMoves(from, occupied) ==
  {to \in horse[from] : horse_legs(from, to) \notin occupied}

get_piece_moves(piece_type, from, occupied, player_idx) ==
  CASE piece_type \in {RKing, BKing} -> king[from]
    [] piece_type \in {RGuard, BGuard} -> guard[from]
    [] piece_type = RBishop -> BishopMoves(from, occupied, red_half_mask)
    [] piece_type = BBishop -> BishopMoves(from, occupied, black_half_mask)
    [] piece_type \in {RHorse, BHorse} -> HorseMoves(from, occupied)
    [] piece_type \in {RPawn, BPawn} -> pawn[player_idx][from]
    [] piece_type \in {RRook, BRook} -> get_rook_moves_bb(from, occupied)
    [] piece_type \in {RCannon, BCannon} -> get_cannon_moves_bb(from, occupied)
    [] OTHER -> {}

\* add_moves: one move per bit of moves_bb, lowest bit first.
add_moves(moves, from, moves_bb, is_cap) ==
  MoveListAddAll(moves, [k \in 1..Cardinality(moves_bb) |->
                           MoveNew(from, BitsAsc(moves_bb)[k], is_cap)])

\* The match on move_gen_type in generate_moves.
AddMovesOfType(moves, from, moves_bb, opponent_pieces_bb, occupied, move_gen_type) ==
  CASE move_gen_type = "All" ->
         add_moves(add_moves(moves, from, moves_bb \cap opponent_pieces_bb, TRUE),
                   from, moves_bb \ occupied, FALSE)
    [] move_gen_type = "Captures" ->
         add_moves(moves, from, moves_bb \cap opponent_pieces_bb, TRUE)
    [] move_gen_type = "Quiets" ->
         add_moves(moves, from, moves_bb \ occupied, FALSE)

\* The body of the while loop of generate_moves for one from-square.
AddPieceMoves(b, moves, piece_type, from, move_gen_type) ==
  AddMovesOfType(moves, from,
                 get_piece_moves(piece_type, from, occupied_bitboard(b),
                                 get_bb_idx(b.player_to_move)),
                 b.color_bitboards[1 - get_bb_idx(b.player_to_move)],
                 occupied_bitboard(b), move_gen_type)

\* The number of moves in the first k lists of per.
CountUpTo(per, k) == Cardinality(UNION {{j} \X (1..Len(per[j])) : j \in 1..k})

\* The lists of per one after the other, as the pushes onto one MoveList
\* leave them.
Flatten(per) ==
  [n \in 1..CountUpTo(per, Len(per)) |->
     LET k == CHOOSE j \in 1..Len(per) : CountUpTo(per, j - 1) < n /\ n <= CountUpTo(per, j)
     IN per[k][n - CountUpTo(per, k - 1)]]

\* The while loop of generate_moves over the bits of one piece bitboard.
GenFromSquares(b, piece_type, piece_bb, move_gen_type) ==
  Flatten([k \in 1..Cardinality(piece_bb) |->
             AddPieceMoves(b, <<>>, piece_type, BitsAsc(piece_bb)[k], move_gen_type)])

\* The moves of piece bitboard i (none when the bitboard is empty).
GenPiece(b, i, move_gen_type) ==
  IF b.piece_bitboards[i] = {} THEN <<>>
  ELSE GenFromSquares(b, b.board[trailing_zeros(b.piece_bitboards[i])],
                      b.piece_bitboards[i], move_gen_type)

\* The for loop of generate_moves over the seven piece bitboards of a side.
GenPieces(b, piece_start_idx, move_gen_type) ==
  Flatten([i \in 1..7 |-> GenPiece(b, piece_start_idx + i - 1, move_gen_type)])

generate_moves(b, moves, move_gen_type) ==
  MoveListAddAll(moves,
                 GenPieces(b, IF b.player_to_move = "Red" THEN 0 ELSE 7, move_gen_type))

generate_capture_moves(b, moves) == generate_moves(b, moves, "Captures")

generate_quiet_moves(b, moves) == generate_moves(b, moves, "Quiets")

\* ------------------------------------------------------------------------
\* move_gen.rs: the attack predicate and the check test
\* ------------------------------------------------------------------------

is_attacked_by_pawn(b, sq, attacker_player) ==
  LET pawn_type == IF attacker_player = "Red" THEN RPawn ELSE BPawn
      defender_idx == IF attacker_player = "Red" THEN 1 ELSE 0
  IN (pawn[defender_idx][sq] \cap b.piece_bitboards[get_bb_index(pawn_type)]) # {}

is_attacked_by_king(b, sq, attacker_player) ==
  LET king_type == IF attacker_player = "Red" THEN RKing ELSE BKing
  IN (king[sq] \cap b.piece_bitboards[get_bb_index(king_type)]) # {}

is_attacked_by_horse(b, sq, attacker_player) ==
  LET horse_type == IF attacker_player = "Red" THEN RHorse ELSE BHorse
      potential_horses == horse[sq] \cap b.piece_bitboards[get_bb_index(horse_type)]
  IN \E from \in potential_horses : horse_legs(from, sq) \notin occupied_bitboard(b)

is_attacked_by_bishop(b, sq, attacker_player) ==
  LET bishop_type == IF attacker_player = "Red" THEN RBishop ELSE BBishop
      potential_bishops == bishop[sq] \cap b.piece_bitboards[get_bb_index(bishop_type)]
      side_mask == IF attacker_player = "Red" THEN red_half_mask ELSE black_half_mask
  IN /\ potential_bishops # {}
     /\ sq \in side_mask
     /\ \E from \in potential_bishops : bishop_legs(from, sq) \notin occupied_bitboard(b)

is_attacked_by_rook(b, sq, attacker_player) ==
  LET rook_type == IF attacker_player = "Red" THEN RRook ELSE BRook
  IN (get_rook_moves_bb(sq, occupied_bitboard(b))
        \cap b.piece_bitboards[get_bb_index(rook_type)]) # {}

is_attacked_by_cannon(b, sq, attacker_player) ==
  LET cannon_type == IF attacker_player = "Red" THEN RCannon ELSE BCannon
  IN (get_cannon_moves_bb(sq, occupied_bitboard(b))
        \cap b.piece_bitboards[get_bb_index(cannon_type)]) # {}

is_square_attacked_by(b, sq, attacker_player) ==
  \/ is_attacked_by_pawn(b, sq, attacker_player)
  \/ is_attacked_by_king(b, sq, attacker_player)
  \/ is_attacked_by_horse(b, sq, attacker_player)
  \/ is_attacked_by_bishop(b, sq, attacker_player)
  \/ is_attacked_by_rook(b, sq, attacker_player)
  \/ is_attacked_by_cannon(b, sq, attacker_player)

\* is_king_in_check without the test of the kings facing each other.
is_king_in_check_by_pieces(b, pl) ==
  LET king_piece == IF pl = "Red" THEN RKing ELSE BKing
      king_bb == b.piece_bitboards[get_bb_index(king_piece)]
  IN IF king_bb = {} THEN TRUE
     ELSE is_square_attacked_by(b, trailing_zeros(king_bb), opponent(pl))

is_king_in_check(b, pl) ==
  LET king_piece == IF pl = "Red" THEN RKing ELSE BKing
      king_bb == b.piece_bitboards[get_bb_index(king_piece)]
  IN IF king_bb = {} THEN TRUE
     ELSE LET king_sq == trailing_zeros(king_bb)
          IN IF is_square_attacked_by(b, king_sq, opponent(pl)) THEN TRUE
             ELSE LET opponent_king_piece == IF pl = "Red" THEN BKing ELSE RKing
                      opponent_king_bb == b.piece_bitboards[get_bb_index(opponent_king_piece)]
                  IN IF opponent_king_bb = {} THEN FALSE
                     ELSE LET opponent_king_sq == trailing_zeros(opponent_king_bb)
                              min_sq == IF king_sq < opponent_king_sq THEN king_sq
                                        ELSE opponent_king_sq
                              max_sq == IF king_sq < opponent_king_sq THEN opponent_king_sq
                                        ELSE king_sq
                              between_mask ==
                                {s \in (min_sq + 9)..(max_sq - 1) : s % 9 = king_sq % 9}
                          IN IF (king_sq % 9) # (opponent_king_sq % 9) THEN FALSE
                             ELSE (occupied_bitboard(b) \cap between_mask) = {}

\* ------------------------------------------------------------------------
\* bitboard.rs: legal move generation
\* ------------------------------------------------------------------------

\* One iteration of the loop of generate_legal_moves: make, test, unmake.
LegalTest(moved, mv) ==
  [moves |-> IF ~is_king_in_check(moved.b, opponent(moved.b.player_to_move))
             THEN <<mv>> ELSE <<>>,
   b |-> unmove_piece(moved.b, mv, moved.captured)]

LegalStep(b, mv) == LegalTest(move_piece(b, mv), mv)

RECURSIVE LegalLoop(_, _, _, _)
\* Iterations lo..hi of the loop (evaluated in halves): the moves kept and
\* the board as the loop leaves it.
LegalLoop(b, pseudo_legal_moves, lo, hi) ==
  IF lo > hi THEN [moves |-> <<>>, b |-> b]
  ELSE IF lo = hi THEN LegalStep(b, pseudo_legal_moves[lo])
  ELSE LET mid == (lo + hi) \div 2
           left == LegalLoop(b, pseudo_legal_moves, lo, mid)
           right == LegalLoop(left.b, pseudo_legal_moves, mid + 1, hi)
       IN IF left.b.history_ply >= 0
          THEN [moves |-> left.moves \o right.moves, b |-> right.b]
          ELSE left

LegalFilter(b, moves, pseudo_legal_moves) ==
  LET done == LegalLoop(b, pseudo_legal_moves, 1, Len(pseudo_legal_moves))
  IN [moves |-> MoveListAddAll(moves, done.moves), b |-> done.b]

generate_legal_moves(b, moves) ==
  LegalFilter(b, moves, generate_quiet_moves(b, generate_capture_moves(b, <<>>)))

\* ------------------------------------------------------------------------
\* config.rs: the default configuration
\* ------------------------------------------------------------------------

bonus_bottom_cannon == 80
bonus_palace_heart_horse == 70
king_safety_penalty_per_guard == 50
dynamic_bonus_attack_per_missing_defender == 15
mobility_bonus_rook == 1
mobility_bonus_horse == 3
mobility_bonus_cannon == 1

\* ------------------------------------------------------------------------
\* evaluate.rs: the static evaluation
\* ------------------------------------------------------------------------

OPENING_PHASE_MATERIAL == (900 + 450 + 500) * 2 + (200 + 200) * 2

RANK_MASKS(i) == {s \in Squares : s \div 9 = i}

\* The material of guards, bishops, horses, rooks and cannons of both sides.
current_phase_material(b) ==
  SumOver(2..6,
          [i \in 2..6 |->
             (popcount(b.piece_bitboards[get_bb_index(from_abs(i))])
              + popcount(b.piece_bitboards[get_bb_index(from_abs(-i))]))
             * MATERIAL_VALUES[i + 1]],
          0)

\* (mg * w + eg * (1.0 - w)) as i32 with w = min(cpm / OPENING_PHASE_MATERIAL,
\* 1.0): the blend as an exact quotient, truncated toward zero as the cast
\* truncates.
pst_score(mg, eg, cpm) ==
  IF cpm >= OPENING_PHASE_MATERIAL THEN mg
  ELSE LET num == mg * cpm + eg * (OPENING_PHASE_MATERIAL - cpm)
       IN IF num >= 0 THEN num \div OPENING_PHASE_MATERIAL
          ELSE -((-num) \div OPENING_PHASE_MATERIAL)

calculate_pattern_score(b) ==
  (IF (b.piece_bitboards[get_bb_index(RCannon)] \cap RANK_MASKS(0)) # {}
   THEN bonus_bottom_cannon ELSE 0)
  + (IF 4 \in b.piece_bitboards[get_bb_index(RHorse)]
     THEN bonus_palace_heart_horse ELSE 0)
  - (IF (b.piece_bitboards[get_bb_index(BCannon)] \cap RANK_MASKS(9)) # {}
     THEN bonus_bottom_cannon ELSE 0)
  - (IF 85 \in b.piece_bitboards[get_bb_index(BHorse)]
     THEN bonus_palace_heart_horse ELSE 0)

\* 2 - count when fewer than two guards are left, else nothing.
MissingGuards(b, guard_type) ==
  IF popcount(b.piece_bitboards[get_bb_index(guard_type)]) < 2
  THEN 2 - popcount(b.piece_bitboards[get_bb_index(guard_type)]) ELSE 0

calculate_king_safety_score(b) ==
  MissingGuards(b, BGuard) * king_safety_penalty_per_guard
  - MissingGuards(b, RGuard) * king_safety_penalty_per_guard

\* The squares of the palace on ranks lo..lo+2 that attacker attacks.
PalaceAttacks(b, lo, attacker) ==
  Cardinality({sq \in {sq_to_idx(r, c) : r \in lo..(lo + 2), c \in 3..5} :
                 is_square_attacked_by(b, sq, attacker)})

calculate_dynamic_bonus_score(b) ==
  (IF MissingGuards(b, BGuard) > 0
   THEN PalaceAttacks(b, 0, "Red") * MissingGuards(b, BGuard)
        * dynamic_bonus_attack_per_missing_defender
   ELSE 0)
  - (IF MissingGuards(b, RGuard) > 0
     THEN PalaceAttacks(b, 7, "Black") * MissingGuards(b, RGuard)
          * dynamic_bonus_attack_per_missing_defender
     ELSE 0)

\* The mobility of one side's rooks, horses and cannons, unsigned.
MobilityOf(b, pl, occupied) ==
  SumOver(b.piece_bitboards[get_bb_index(IF pl = "Red" THEN RRook ELSE BRook)],
          [sq \in Squares |->
             popcount(get_rook_moves_bb(sq, occupied) \ b.color_bitboards[get_bb_idx(pl)])
             * mobility_bonus_rook], 0)
  + SumOver(b.piece_bitboards[get_bb_index(IF pl = "Red" THEN RHorse ELSE BHorse)],
            [sq \in Squares |->
               popcount(HorseMoves(sq, occupied) \ b.color_bitboards[get_bb_idx(pl)])
               * mobility_bonus_horse], 0)
  + SumOver(b.piece_bitboards[get_bb_index(IF pl = "Red" THEN RCannon ELSE BCannon)],
            [sq \in Squares |->
               popcount(get_cannon_moves_bb(sq, occupied) \ b.color_bitboards[get_bb_idx(pl)])
               * mobility_bonus_cannon], 0)

calculate_mobility_score(b) ==
  MobilityOf(b, "Red", occupied_bitboard(b)) - MobilityOf(b, "Black", occupied_bitboard(b))

\* The score from Red's side, before the sign for the side to move.
final_score(b) ==
  b.material_score
  + pst_score(b.mg_pst_score, b.eg_pst_score, current_phase_material(b))
  + calculate_mobility_score(b) + calculate_pattern_score(b)
  + calculate_king_safety_score(b) + calculate_dynamic_bonus_score(b)

evaluate(b) == IF b.player_to_move = "Red" THEN final_score(b) ELSE -final_score(b)

\* ------------------------------------------------------------------------
\* tt.rs: the transposition table.  The table is kept as the function from
\* the hash keys stored so far to their entries: distinct keys are taken to
\* index distinct slots, and no position has the key of an empty slot.
\* ------------------------------------------------------------------------

TtNew == <<>>

\* probe: the entry stored under hash_key, as a set of at most one entry.
tt_probe(tt, hash_key) == IF hash_key \in DOMAIN tt THEN {tt[hash_key]} ELSE {}

\* store: depth-preferred replacement (an empty slot holds depth 0).
tt_store(tt, hash_key, depth, score, flag, best_move) ==
  IF depth >= (IF hash_key \in DOMAIN tt THEN tt[hash_key].depth ELSE 0)
  THEN (hash_key :> [depth |-> depth, score |-> score, flag |-> flag,
                     best_move |-> best_move]) @@ tt
  ELSE tt

\* ------------------------------------------------------------------------
\* tt.rs: the table slot by slot.  entries is the Vec<TtEntry>, indexed from
\* 0; hash keys are the u64 numbers themselves.
\* ------------------------------------------------------------------------

new_empty ==
  [hash_key |-> 0, depth |-> 0, score |-> 0, flag |-> "Exact", best_move |-> NullMove]

\* The entries of TranspositionTable::new, num_entries of them.
TranspositionTableNew(num_entries) == [i \in 0..(num_entries - 1) |-> new_empty]

\* entries.len()
EntriesLen(entries) == Cardinality(DOMAIN entries)

\* probe: Some(entry) or None, as a set of at most one entry.
probe(entries, hash_key) ==
  LET index == hash_key % EntriesLen(entries)
      entry == entries[index]
  IN IF entry.hash_key = hash_key THEN {entry} ELSE {}

\* store leaving depth out of account.
store_always(entries, hash_key, depth, score, flag, best_move) ==
  [entries EXCEPT ![hash_key % EntriesLen(entries)] =
     [hash_key |-> hash_key, depth |-> depth, score |-> score, flag |-> flag,
      best_move |-> best_move]]

\* store: depth-preferred replacement.
store(entries, hash_key, depth, score, flag, best_move) ==
  LET index == hash_key % EntriesLen(entries)
      entry == entries[index]
  IN IF depth >= entry.depth
     THEN [entries EXCEPT ![index] =
             [hash_key |-> hash_key, depth |-> depth, score |-> score, flag |-> flag,
              best_move |-> best_move]]
     ELSE entries

clear(entries) == [i \in DOMAIN entries |-> new_empty]

\* ------------------------------------------------------------------------
\* engine.rs: the search engine.  A search state s holds the fields of the
\* Engine together with the board it searches (s.board) and the clock:
\* s.time_limit_ms is {} for None and {limit} for Some(limit); s.in_time is
\* the number of readings of start_time.elapsed() that are still below a
\* positive limit (-1: every reading is).
\* ------------------------------------------------------------------------

MAX_PLY == 128
TIME_CHECK_NODES == 2048
Q_SEARCH_DEPTH == 8
TT_BEST_MOVE_SCORE == 1000000
KILLER_MOVE_SCORE == 500000
CAPTURE_BONUS == 800000

\* Engine::new, with the board to search and the clock.
EngineNew(b, time_limit_ms, in_time) ==
  [board |-> b,
   tt |-> TtNew,
   history_table |-> Array([i \in 0..13 |-> Array([sq \in Squares |-> 0])]),
   killer_moves |-> Array([p \in 0..(MAX_PLY - 1) |-> <<NullMove, NullMove>>]),
   nodes_searched |-> 0,
   stop_search |-> FALSE,
   time_limit_ms |-> time_limit_ms,
   in_time |-> in_time]

get_major_piece_count(b, pl) ==
  SumOver({i \in (IF pl = "Red" THEN 0..6 ELSE 7..13) : is_major(from_abs(i + 1))},
          [i \in 0..13 |-> popcount(b.piece_bitboards[i])], 0)

\* The caller reads s.stop_search of the result.
check_time_limit(s) ==
  IF s.nodes_searched % TIME_CHECK_NODES = 0 /\ s.time_limit_ms # {}
  THEN IF 0 \in s.time_limit_ms \/ s.in_time = 0
       THEN [s EXCEPT !.stop_search = TRUE]
       ELSE [s EXCEPT !.in_time = IF @ > 0 THEN @ - 1 ELSE @]
  ELSE s

\* handle_repetition returning the draw at the first earlier occurrence.
handle_repetition_at_second_occurrence(b) ==
  IF b.history_ply >= 2
     /\ Cardinality({i \in 0..(b.history_ply - 2) :
                       /\ (b.history_ply - i) % 2 = 0
                       /\ b.history[i] = b.hash_key}) >= 1
  THEN {0} ELSE {}

\* {0} for a draw by repetition, {} for None.
handle_repetition(b) ==
  IF b.history_ply >= 4
     /\ Cardinality({i \in 0..(b.history_ply - 2) :
                       /\ (b.history_ply - i) % 2 = 0
                       /\ b.history[i] = b.hash_key}) >= 2
  THEN {0} ELSE {}

\* The bounds and the table move after looking at one entry.
ProbeEntry(entry, depth, alpha, beta) ==
  IF entry.depth >= depth
  THEN LET a == IF entry.flag = "LowerBound" /\ entry.score > alpha
                THEN entry.score ELSE alpha
           bt == IF entry.flag = "UpperBound" /\ entry.score < beta
                 THEN entry.score ELSE beta
       IN [result |-> IF entry.flag = "Exact" \/ a >= bt
                      THEN {<<entry.best_move, entry.score>>} ELSE {},
           alpha |-> a, beta |-> bt, tt_best_move |-> entry.best_move]
  ELSE [result |-> {}, alpha |-> alpha, beta |-> beta,
        tt_best_move |-> entry.best_move]

\* result is {<<move, score>>} when the probe ends the node, {} when not.
probe_tt_table(tt, hash_key, depth, alpha, beta) ==
  IF tt_probe(tt, hash_key) = {}
  THEN [result |-> {}, alpha |-> alpha, beta |-> beta, tt_best_move |-> NullMove]
  ELSE ProbeEntry(tt[hash_key], depth, alpha, beta)

store_in_tt_table(s, hash_key, depth, best_score, original_alpha, beta, best_move) ==
  [s EXCEPT !.tt = tt_store(@, hash_key, depth, best_score,
                            IF best_score >= beta THEN "LowerBound"
                            ELSE IF best_score > original_alpha THEN "Exact"
                            ELSE "UpperBound",
                            best_move)]

store_killer_move(s, mv, ply) ==
  IF ply < MAX_PLY
  THEN [s EXCEPT !.killer_moves[ply] = <<mv, s.killer_moves[ply][1]>>]
  ELSE s

score_move(s, mv, tt_best_move, ply) ==
  IF from_sq(mv) = from_sq(tt_best_move) /\ to_sq(mv) = to_sq(tt_best_move)
  THEN TT_BEST_MOVE_SCORE
  ELSE IF s.board.board[to_sq(mv)] # Empty
  THEN CAPTURE_BONUS + value(s.board.board[to_sq(mv)]) - value(s.board.board[from_sq(mv)])
  ELSE IF ply < MAX_PLY /\ s.killer_moves[ply][1] = mv THEN KILLER_MOVE_SCORE
  ELSE IF ply < MAX_PLY /\ s.killer_moves[ply][2] = mv THEN KILLER_MOVE_SCORE - 10
  ELSE IF s.board.board[from_sq(mv)] # Empty
  THEN s.history_table[get_bb_index(s.board.board[from_sq(mv)])][to_sq(mv)]
  ELSE 0

\* rank[i]: how many moves the stable descending sort puts before move i.
SortRanks(scores) ==
  [i \in 1..Len(scores) |->
     Cardinality({j \in 1..Len(scores) :
                    scores[j] > scores[i] \/ (scores[j] = scores[i] /\ j < i)})] \o <<>>

\* The moves in the order given by their ranks.
SortByRanks(moves, ranks) ==
  [k \in 1..Len(moves) |-> moves[CHOOSE i \in 1..Len(moves) : ranks[i] = k - 1]] \o <<>>

\* scored_moves after sort_by(|a, b| b.score.cmp(&a.score)): by descending
\* score, moves of equal score in the order of generation.
sorted_moves(s, moves, tt_best_move, ply) ==
  SortByRanks(moves,
              SortRanks([i \in 1..Len(moves) |->
                           score_move(s, moves[i], tt_best_move, ply)] \o <<>>))

RECURSIVE quiescence_search(_, _, _, _)

\* clear_history, clear_killers and TranspositionTable::clear.
clear_history(s) ==
  [s EXCEPT !.history_table = Array([i \in 0..13 |-> Array([sq \in Squares |-> 0])])]

clear_killers(s) ==
  [s EXCEPT !.killer_moves = Array([p \in 0..(MAX_PLY - 1) |-> <<NullMove, NullMove>>])]

tt_clear(s) == [s EXCEPT !.tt = TtNew]


\* ---- quiescence_search ----

\* One quiet move of the pre-pass: made, tested for giving check, unmade.
QuietCheckTest(moved, mv) ==
  [moves |-> IF is_king_in_check(moved.b, moved.b.player_to_move)
             THEN <<mv>> ELSE <<>>,
   b |-> unmove_piece(moved.b, mv, moved.captured)]

RECURSIVE QuietCheckLoop(_, _, _, _)
\* Iterations lo..hi of the loop over quiet_moves (evaluated in halves): the
\* checking moves and the board as the loop leaves it.
QuietCheckLoop(b, quiet_moves, lo, hi) ==
  IF lo > hi THEN [moves |-> <<>>, b |-> b]
  ELSE IF lo = hi THEN QuietCheckTest(move_piece(b, quiet_moves[lo]), quiet_moves[lo])
  ELSE LET mid == (lo + hi) \div 2
           left == QuietCheckLoop(b, quiet_moves, lo, mid)
           right == QuietCheckLoop(left.b, quiet_moves, mid + 1, hi)
       IN IF left.b.history_ply >= 0
          THEN [moves |-> left.moves \o right.moves, b |-> right.b]
          ELSE left

\* The child's score taken into the loop state l = [s, alpha, done, quiet];
\* quiet records that the call or a call below it recursed into a move whose
\* destination square was empty.
QScored(l, beta, mv, captured, r) ==
  IF -r.alpha >= beta
  THEN [s |-> [r.s EXCEPT !.board = unmove_piece(@, mv, captured)],
        alpha |-> beta, done |-> TRUE,
        quiet |-> l.quiet \/ r.quiet \/ captured = Empty]
  ELSE [s |-> [r.s EXCEPT !.board = unmove_piece(@, mv, captured)],
        alpha |-> IF -r.alpha > l.alpha THEN -r.alpha ELSE l.alpha,
        done |-> FALSE,
        quiet |-> l.quiet \/ r.quiet \/ captured = Empty]

\* The body of the move loop, the move already made.
QMoved(l, beta, ply, mv, moved) ==
  IF ~is_king_in_check(moved.b, opponent(moved.b.player_to_move))
  THEN QScored(l, beta, mv, moved.captured,
               quiescence_search([l.s EXCEPT !.board = moved.b],
                                 -beta, -l.alpha, ply + 1))
  ELSE [l EXCEPT !.s.board = unmove_piece(moved.b, mv, moved.captured)]

RECURSIVE QMoveLoop(_, _, _, _, _, _)
\* Iterations lo..hi of the move loop (evaluated in halves); l.done once the
\* loop has returned beta.
QMoveLoop(l, beta, ply, moves, lo, hi) ==
  IF l.done \/ lo > hi THEN l
  ELSE IF lo = hi THEN QMoved(l, beta, ply, moves[lo], move_piece(l.s.board, moves[lo]))
  ELSE QMoveLoop(QMoveLoop(l, beta, ply, moves, lo, (lo + hi) \div 2),
                 beta, ply, moves, (lo + hi) \div 2 + 1, hi)

\* The move list in search order, then the loop; pre holds the checking
\* quiet moves and the board after the pre-pass.
QSearchMoves(s, alpha, beta, ply, moves) ==
  QMoveLoop([s |-> s, alpha |-> alpha, done |-> FALSE, quiet |-> FALSE], beta, ply,
            sorted_moves(s, moves, NullMove, ply), 1, Len(moves))

QPrePass(s, alpha, beta, ply, pre) ==
  QSearchMoves([s EXCEPT !.board = pre.b], alpha, beta, ply,
               MoveListAddAll(generate_capture_moves(s.board, <<>>), pre.moves))

QQuietMoves(s, alpha, beta, ply, quiet_moves) ==
  QPrePass(s, alpha, beta, ply,
           QuietCheckLoop(s.board, quiet_moves, 1, Len(quiet_moves)))

QStandPat(s, alpha, beta, ply, stand_pat) ==
  IF stand_pat >= beta THEN [s |-> s, alpha |-> beta, done |-> TRUE, quiet |-> FALSE]
  ELSE QQuietMoves(s, IF stand_pat > alpha THEN stand_pat ELSE alpha, beta, ply,
                   generate_quiet_moves(s.board, <<>>))

QChecked(s, alpha, beta, ply) ==
  IF s.stop_search THEN [s |-> s, alpha |-> 0, done |-> TRUE, quiet |-> FALSE]
  ELSE QStandPat([s EXCEPT !.nodes_searched = @ + 1], alpha, beta, ply,
                 evaluate(s.board))

\* The result is [s, alpha, done, quiet]: alpha is the value returned.
quiescence_search(s, alpha, beta, ply) ==
  IF ply >= MAX_PLY \/ ply > Q_SEARCH_DEPTH
  THEN [s |-> s, alpha |-> evaluate(s.board), done |-> TRUE, quiet |-> FALSE]
  ELSE QChecked(check_time_limit(s), alpha, beta, ply)


\* ------------------------------------------------------------------------
\* engine.rs: negamax.  The calls of negamax in progress are the frames of a
\* stack, the innermost last.  A frame holds the call's arguments and locals
\* and where the call stands (pc):
\*   "call"     called, the body not yet entered
\*   "null"     inside perform_null_move_pruning, the null-move search running
\*   "loop"     in the move loop, before the move at index i
\*   "full"     the full-window search of move mv running
\*   "reduced"  the null-window search of move mv running
\* A step of the machine m = [s, stack, ret, did] runs the innermost call up
\* to its next call of negamax or to its return: ret is the value a call has
\* just returned to the frame below it, did names what the step did.
\* ------------------------------------------------------------------------

\* NodeOf with the extension given to every node, in check or not.
NodeOf_extending_every_node(depth, original_alpha, alpha, beta, ply, tt_best_move, is_in_check) ==
  [depth |-> depth, original_alpha |-> original_alpha, alpha |-> alpha, beta |-> beta,
   ply |-> ply,
   tt_best_move |-> tt_best_move, is_in_check |-> is_in_check,
   current_depth |-> depth + 1]

\* What a node keeps of its arguments and of the steps before the move loop:
\* original_alpha is alpha as passed, alpha and beta are the bounds after the
\* table probe.
NodeOf(depth, original_alpha, alpha, beta, ply, tt_best_move, is_in_check) ==
  [depth |-> depth, original_alpha |-> original_alpha, alpha |-> alpha, beta |-> beta,
   ply |-> ply,
   tt_best_move |-> tt_best_move, is_in_check |-> is_in_check,
   current_depth |-> IF is_in_check THEN depth + 1 ELSE depth]

\* The locals of the move loop as the loop starts.
LoopStart(alpha) ==
  [alpha |-> alpha, best_score |-> -MATE_VALUE, best_move |-> NullMove,
   legal_moves_found |-> 0, done |-> FALSE]

\* negamax(board, depth, alpha, beta, ply), called.
Call(depth, alpha, beta, ply) ==
  [pc |-> "call", depth |-> depth, alpha |-> alpha, beta |-> beta, ply |-> ply,
   n |-> NodeOf(depth, alpha, alpha, beta, ply, NullMove, FALSE),
   l |-> LoopStart(alpha), moves |-> <<>>, i |-> 0,
   mv |-> NullMove, captured |-> Empty, reduction |-> 0]

Top(stack) == stack[Len(stack)]

Pop(stack) == SubSeq(stack, 1, Len(stack) - 1)

SetTop(stack, f) == [stack EXCEPT ![Len(stack)] = f]

NoRet == [valid |-> FALSE, mv |-> NullMove, score |-> 0]

\* The innermost call returns (mv, score).
Returned(s, stack, mv, score, did) ==
  [s |-> s, stack |-> Pop(stack),
   ret |-> [valid |-> TRUE, mv |-> mv, score |-> score], did |-> did]

\* The innermost call goes on, or has called negamax.
Running(s, stack, did) == [s |-> s, stack |-> stack, ret |-> NoRet, did |-> did]

\* NullMade without the entry in the history.
NullMade_without_history(b) ==
  [b EXCEPT !.player_to_move = opponent(@),
            !.hash_key = Xor(@, ZOBRIST_PLAYER),
            !.history_ply = @ + 1]

\* The null move made on the board.
NullMade(b) ==
  RecordHistory([b EXCEPT !.player_to_move = opponent(@),
                          !.hash_key = Xor(@, ZOBRIST_PLAYER),
                          !.history_ply = @ + 1])

\* NullUnmade without the step back in the history.
NullUnmade_keeps_history_ply(b) ==
  [b EXCEPT !.hash_key = Xor(@, ZOBRIST_PLAYER),
            !.player_to_move = opponent(@)]

\* The null move taken back.
NullUnmade(b) ==
  [b EXCEPT !.history_ply = @ - 1,
            !.hash_key = Xor(@, ZOBRIST_PLAYER),
            !.player_to_move = opponent(@)]

\* The beta cutoff of a quiet move: the killer slot and the history table.
RecordCutoff(s, mv, n) ==
  IF is_capture(mv) THEN s
  ELSE IF s.board.board[from_sq(mv)] # Empty
  THEN [store_killer_move(s, mv, n.ply)
          EXCEPT !.history_table[get_bb_index(s.board.board[from_sq(mv)])][to_sq(mv)] =
                   @ + n.depth * n.depth]
  ELSE store_killer_move(s, mv, n.ply)

\* The generated moves in search order, and the loop about to start.
EnterLoop(s, stack, f, n, alpha, did) ==
  Running(s,
          SetTop(stack,
                 [f EXCEPT !.pc = "loop", !.n = n, !.l = LoopStart(alpha), !.i = 1,
                           !.moves = sorted_moves(s,
                                       generate_quiet_moves(s.board,
                                         generate_capture_moves(s.board, <<>>)),
                                       n.tt_best_move, n.ply)]),
          did)

\* perform_null_move_pruning up to its call of negamax: the null move made.
EnterNull(s, stack, f, n, alpha) ==
  Running([s EXCEPT !.board = NullMade(@)],
          Append(SetTop(stack, [f EXCEPT !.pc = "null", !.n = n, !.l = LoopStart(alpha)]),
                 Call(n.current_depth - 1 - (IF n.current_depth > 6 THEN 3 ELSE 2),
                      -n.beta, -n.beta + 1, n.ply + 1)),
          "null")

\* The node below the table probe, at depth > 0: the null move is tried when
\* the side to move is not in check, the depth is 3 or more and it has more
\* than one major piece.
EnterNode(s, stack, f, n, alpha) ==
  IF ~n.is_in_check /\ n.current_depth >= 3
     /\ get_major_piece_count(s.board, s.board.player_to_move) > 1
  THEN EnterNull(s, stack, f, n, alpha)
  ELSE EnterLoop(s, stack, f, n, alpha, "moves")

\* The value of quiescence_search returned with the null move.
NegamaxQuiescence(q, stack) ==
  Returned(q.s, stack, NullMove, q.alpha,
           IF q.quiet THEN "quiescence with a quiet move" ELSE "quiescence")

\* After probe_tt_table (tt): its result, quiescence at depth <= 0, or the
\* node.
NegamaxProbed(s, stack, f, tt) ==
  IF tt.result # {}
  THEN Returned(s, stack, (CHOOSE x \in tt.result : TRUE)[1],
                (CHOOSE x \in tt.result : TRUE)[2], "table")
  ELSE IF f.depth <= 0
  THEN NegamaxQuiescence(quiescence_search(s, tt.alpha, tt.beta, f.ply), stack)
  ELSE EnterNode(s, stack, f,
                 NodeOf(f.depth, f.alpha, tt.alpha, tt.beta, f.ply, tt.tt_best_move,
                        is_king_in_check(s.board, s.board.player_to_move)),
                 tt.alpha)

NegamaxCounted(s, stack, f) ==
  IF f.ply > 0 /\ handle_repetition(s.board) # {}
  THEN Returned(s, stack, NullMove, CHOOSE x \in handle_repetition(s.board) : TRUE,
                "repetition")
  ELSE NegamaxProbed(s, stack, f,
                     probe_tt_table(s.tt, s.board.hash_key, f.depth, f.alpha, f.beta))

NegamaxChecked(s, stack, f) ==
  IF s.stop_search THEN Returned(s, stack, NullMove, 0, "stopped")
  ELSE NegamaxCounted([s EXCEPT !.nodes_searched = @ + 1], stack, f)

\* The innermost call from its entry.
NegamaxEntered(s, stack) == NegamaxChecked(check_time_limit(s), stack, Top(stack))

\* perform_null_move_pruning after its call of negamax returned score: the
\* null move taken back, and beta returned when the score prunes the node.
NullMoveReturned(s, stack, f, score) ==
  IF -score >= f.n.beta
  THEN Returned([s EXCEPT !.board = NullUnmade(@)], stack, NullMove, f.n.beta, "pruned")
  ELSE EnterLoop([s EXCEPT !.board = NullUnmade(@)], stack, f, f.n, f.l.alpha, "moves")

\* The searches of a legal move already made: the first move with the full
\* window, the others with the null window and the late move reduction.
MoveSearch(s, stack, f, mv, captured, reduction) ==
  IF f.l.legal_moves_found = 0
  THEN Running(s,
               Append(SetTop(stack, [f EXCEPT !.pc = "full", !.mv = mv,
                                              !.captured = captured, !.reduction = 0,
                                              !.l.legal_moves_found = 1]),
                      Call(f.n.current_depth - 1, -f.n.beta, -f.l.alpha, f.n.ply + 1)),
               "first")
  ELSE Running(s,
               Append(SetTop(stack, [f EXCEPT !.pc = "reduced", !.mv = mv,
                                              !.captured = captured,
                                              !.reduction = reduction,
                                              !.l.legal_moves_found = @ + 1]),
                      Call(f.n.current_depth - 1 - reduction,
                           -f.l.alpha - 1, -f.l.alpha, f.n.ply + 1)),
               IF reduction > 0 THEN "reduction" ELSE "scout")

\* The body of the move loop, the move already made: a move that leaves the
\* mover in check is taken back and skipped.
MoveMade(s, stack, f, mv, moved) ==
  IF is_king_in_check(moved.b, opponent(moved.b.player_to_move))
  THEN Running([s EXCEPT !.board = unmove_piece(moved.b, mv, moved.captured)],
               SetTop(stack, [f EXCEPT !.i = @ + 1]), "skipped")
  ELSE MoveSearch([s EXCEPT !.board = moved.b], stack, f, mv, moved.captured,
                  IF /\ f.n.current_depth >= 3
                     /\ f.l.legal_moves_found + 1 > 3
                     /\ ~f.n.is_in_check
                     /\ ~is_capture(mv)
                  THEN 1 ELSE 0)

\* The loop takes its next move.
MoveTaken(s, stack, f) ==
  MoveMade(s, stack, f, f.moves[f.i], move_piece(s.board, f.moves[f.i]))

\* The end of the loop body: s is the state after unmove_piece, score the
\* move's score.
MoveUpdate(s, stack, f, score) ==
  LET best_score == IF score > f.l.best_score THEN score ELSE f.l.best_score
      alpha == IF best_score > f.l.alpha THEN best_score ELSE f.l.alpha
  IN Running(IF alpha >= f.n.beta THEN RecordCutoff(s, f.mv, f.n) ELSE s,
             SetTop(stack,
                    [f EXCEPT !.pc = "loop", !.i = @ + 1,
                              !.l = [alpha |-> alpha,
                                     best_score |-> best_score,
                                     best_move |-> IF score > f.l.best_score
                                                   THEN f.mv ELSE f.l.best_move,
                                     legal_moves_found |-> f.l.legal_moves_found,
                                     done |-> alpha >= f.n.beta]]),
             IF alpha >= f.n.beta THEN "cutoff" ELSE "scored")

\* A search of move mv returned score: the full-window search again when the
\* reduced search beats alpha, else the move taken back and the score taken
\* into the loop.
MoveReturned(s, stack, f, score) ==
  IF f.pc = "reduced" /\ -score > f.l.alpha /\ f.reduction > 0
  THEN Running(s,
               Append(SetTop(stack, [f EXCEPT !.pc = "full"]),
                      Call(f.n.current_depth - 1, -f.n.beta, -f.l.alpha, f.n.ply + 1)),
               "research")
  ELSE MoveUpdate([s EXCEPT !.board = unmove_piece(@, f.mv, f.captured)],
                  stack, f, -score)

\* After the loop: mate or stalemate, or the table entry and the best move.
NegamaxEnd(s, stack, f) ==
  IF f.l.legal_moves_found = 0
  THEN Returned(s, stack, NullMove,
                IF f.n.is_in_check THEN -MATE_VALUE + f.n.ply ELSE 0, "no moves")
  ELSE Returned(store_in_tt_table(s, s.board.hash_key, f.n.depth, f.l.best_score,
                                  f.n.original_alpha, f.n.beta, f.l.best_move),
                stack, f.l.best_move, f.l.best_score, "best")

\* How many of the calls that found nodes_searched at from..(to - 1) read the
\* clock.
Readings(from, to) ==
  Cardinality({c \in from..(to - 1) : c % TIME_CHECK_NODES = 0})

\* The numbers of in-time readings a step can see, the step reaching
\* nodes_searched = to when every reading is in time (-1).
InTimes(s, to) ==
  IF s.time_limit_ms = {} \/ 0 \in s.time_limit_ms \/ s.stop_search
  THEN {-1}
  ELSE -1..(Readings(s.nodes_searched, to) - 1)

\* ------------------------------------------------------------------------
\* engine.rs: Engine::search and the opening book it consults
\* ------------------------------------------------------------------------

\* query_opening_book: the moves the book holds for the board's hash key.
query_opening_book(book, b) ==
  IF b.hash_key \in DOMAIN book THEN Range(book[b.hash_key]) ELSE {}

\* The locals of search as the loop starts.
SearchStart(max_depth) ==
  [pc |-> IF max_depth >= 1 THEN "iterate" ELSE "returned",
   max_depth |-> max_depth, current_depth |-> 1,
   best_move_overall |-> NullMove, best_score_overall |-> -MATE_VALUE,
   searched_depth |-> 1,
   result |-> <<NullMove, -MATE_VALUE, 1>>]

\* The fields of the engine search resets, the board and the time limit it
\* is given.
SearchEngine(s, b, time_limit_ms) ==
  [tt_clear(clear_killers(clear_history(s)))
     EXCEPT !.nodes_searched = 0, !.stop_search = FALSE,
            !.time_limit_ms = time_limit_ms, !.in_time = -1, !.board = b]

\* search returns (mv, score, depth).
SearchReturned(sr, mv, score, depth) ==
  [sr EXCEPT !.pc = "returned", !.result = <<mv, score, depth>>]

\* The iteration's result kept when its move is not the null move.
IterationKept(sr, mv, score) ==
  IF from_sq(mv) # 0 \/ to_sq(mv) # 0
  THEN [sr EXCEPT !.best_move_overall = mv, !.best_score_overall = score,
                  !.searched_depth = sr.current_depth]
  ELSE sr

\* After the iteration's result is kept: the break on a mate score, the end
\* of the loop, or the next depth.
IterationNext(sr) ==
  IF Abs(sr.best_score_overall) > MATE_VALUE - 100 \/ sr.current_depth >= sr.max_depth
  THEN SearchReturned(sr, sr.best_move_overall, sr.best_score_overall, sr.searched_depth)
  ELSE [sr EXCEPT !.pc = "iterate", !.current_depth = @ + 1]

\* IterationDone without the break on stop_search.
IterationDone_ignoring_stop(sr, stop_search, mv, score) ==
  IterationNext(IterationKept(sr, mv, score))

\* The root call of negamax returned (mv, score): the break when the search
\* was stopped, else the result kept.
IterationDone(sr, stop_search, mv, score) ==
  IF stop_search
  THEN SearchReturned(sr, sr.best_move_overall, sr.best_score_overall, sr.searched_depth)
  ELSE IterationNext(IterationKept(sr, mv, score))

\* ------------------------------------------------------------------------
\* Playing on one board: Board::from_fen, then move_piece, unmove_piece and
\* generate_legal_moves called in any order
\* ------------------------------------------------------------------------

\* The number of calls made on the board in one behaviour.
MaxOps == 3

\* "4k4/3P5/9/9/9/9/9/9/9/3K5 b": a Red pawn across the river, diagonal to the Black king.
FenPawnBesideKing ==
  <<<<"4", "k", "4", "/", "3", "P", "5", "/", "9", "/", "9", "/", "9", "/", "9", "/", "9", "/", "9", "/", "9", "/", "3", "K", "5">>, "b">>

\* "4k4/9/9/p3n4/9/4P4/9/4C4/9/3K5 b": a Black pawn and horse against a Red pawn, cannon and king.
FenHorseCannon ==
  <<<<"4", "k", "4", "/", "9", "/", "9", "/", "p", "3", "n", "4", "/", "9", "/", "4", "P", "4", "/", "9", "/", "4", "C", "4", "/", "9", "/", "3", "K", "5">>, "b">>

\* "2bak4/9/9/9/9/9/9/9/4A4/2BK5 w": guards and bishops of both sides, Red to move.
FenGuardsBishops ==
  <<<<"2", "b", "a", "k", "4", "/", "9", "/", "9", "/", "9", "/", "9", "/", "9", "/", "9", "/", "9", "/", "4", "A", "4", "/", "2", "B", "K", "5">>, "w">>

StartFens == {FenPawnBesideKing, FenHorseCannon, FenGuardsBishops}

VARIABLES
  board,    \* the Board
  made,     \* the moves made and not yet unmade, with what move_piece returned
  legal,    \* the list the last generate_legal_moves filled, if the board is still as it left it
  undone,   \* the last call, if it was unmove_piece: the board as it was before the matching move_piece
  ops,      \* the number of calls made so far
  engine,   \* the Engine, with the board search is working on
  stack,    \* the calls of negamax in progress
  ret,      \* the value a call of negamax has just returned
  search,   \* the locals of Engine::search, where it stands, and what it returned
  opening_book,  \* OPENING_BOOK: the moves of the book by hash key
  trace,    \* of the search: the board at the call, the iterations and the steps so far
  table,    \* a TranspositionTable slot by slot, with the calls made on it
  uci       \* the UCI front-end: the lines on stdin, its board, what it wrote

vars == <<board, made, legal, undone, ops, engine, stack, ret, search, opening_book, trace,
          table, uci>>

boardVars == <<made, legal, undone, ops>>

searchVars == <<engine, stack, ret, search, opening_book, trace>>

frontVars == <<table, uci>>

\* search not called.
SearchIdle == [SearchStart(0) EXCEPT !.pc = "idle"]

NoTrace ==
  [entry |-> BoardNew, iterations |-> <<>>, stopped_in |-> 0, partial |-> NoRet,
   book_hit |-> FALSE, steps |-> {}, did |-> "none"]

NoList == [valid |-> FALSE, moves |-> <<>>]

\* No table made.
NoTable == [entries |-> <<>>, stores |-> {}, last |-> [op |-> "none"], calls |-> 0]

\* The front-end not started.
NoUci == [stdin |-> <<>>, pc |-> "none"]

NotUndone == [valid |-> FALSE, before |-> BoardNew, mv |-> NullMove, captured |-> Empty]

\* The pseudo-legal moves of the side to move.
PseudoLegalMoves(b) == generate_quiet_moves(b, generate_capture_moves(b, <<>>))

Init ==
  /\ \E fen \in StartFens : board = from_fen(fen)
  /\ made = <<>>
  /\ legal = NoList
  /\ undone = NotUndone
  /\ ops = 0
  /\ engine = EngineNew(BoardNew, {}, -1)
  /\ stack = <<>>
  /\ ret = NoRet
  /\ search = SearchIdle
  /\ opening_book = <<>>
  /\ trace = NoTrace
  /\ table = NoTable
  /\ uci = NoUci

MovePiece ==
  /\ ops < MaxOps
  /\ board.history_ply + 1 < MAX_HISTORY
  /\ \E mv \in Range(PseudoLegalMoves(board)) :
       LET r == move_piece(board, mv)
       IN /\ board' = r.b
          /\ made' = Append(made, [mv |-> mv, captured |-> r.captured, before |-> board])
  /\ legal' = NoList
  /\ undone' = NotUndone
  /\ ops' = ops + 1
  /\ UNCHANGED searchVars
  /\ UNCHANGED frontVars

UnmovePiece ==
  /\ ops < MaxOps
  /\ made # <<>>
  /\ LET top == made[Len(made)]
     IN /\ board' = unmove_piece(board, top.mv, top.captured)
        /\ undone' = [valid |-> TRUE, before |-> top.before, mv |-> top.mv,
                      captured |-> top.captured]
  /\ made' = SubSeq(made, 1, Len(made) - 1)
  /\ legal' = NoList
  /\ ops' = ops + 1
  /\ UNCHANGED searchVars
  /\ UNCHANGED frontVars

GenerateLegalMoves ==
  /\ ops < MaxOps
  /\ board.history_ply + 1 < MAX_HISTORY
  /\ LET r == generate_legal_moves(board, <<>>)
     IN /\ board' = r.b
        /\ legal' = [valid |-> TRUE, moves |-> r.moves]
  /\ undone' = NotUndone
  /\ ops' = ops + 1
  /\ UNCHANGED made
  /\ UNCHANGED searchVars
  /\ UNCHANGED frontVars

Next == MovePiece \/ UnmovePiece \/ GenerateLegalMoves

Spec == Init /\ [][Next]_vars

\* ------------------------------------------------------------------------
\* Searching: Engine::new and Board::from_fen, then one call of
\* Engine::search(board, max_depth, time_limit_ms)
\* ------------------------------------------------------------------------

\* The deepest max_depth search is called with.
MaxDepth == 3

\* "9/5k3/4C4/8p/4RN3/9/P6r1/2c6/9/4K4 w": rook, horse and cannon against rook and cannon; the search reads the clock a second time in its third iteration.
FenLong ==
  <<<<"9", "/", "5", "k", "3", "/", "4", "C", "4", "/", "8", "p", "/", "4", "R", "N", "3", "/", "9", "/", "P", "6", "r", "1", "/", "2", "c", "6", "/", "9", "/", "4", "K", "4">>, "w">>

\* "3k5/8R/9/9/9/4R4/9/9/9/5K3 b": Black is not in check and has no move.
FenStalemate ==
  <<<<"3", "k", "5", "/", "8", "R", "/", "9", "/", "9", "/", "9", "/", "4", "R", "4", "/", "9", "/", "9", "/", "9", "/", "5", "K", "3">>, "b">>

\* "3k5/8R/9/9/9/3RR4/9/9/9/5K3 b": Black is in check and has no move.
FenCheckmate ==
  <<<<"3", "k", "5", "/", "8", "R", "/", "9", "/", "9", "/", "9", "/", "3", "R", "R", "4", "/", "9", "/", "9", "/", "9", "/", "5", "K", "3">>, "b">>

\* "3k5/9/9/9/9/4R4/9/9/8R/5K3 w": Red mates in one.
FenMateInOne ==
  <<<<"3", "k", "5", "/", "9", "/", "9", "/", "9", "/", "9", "/", "4", "R", "4", "/", "9", "/", "9", "/", "8", "R", "/", "5", "K", "3">>, "w">>

\* "3k5/9/9/4c4/9/9/4P4/4C4/9/4K4 b": the cannons face each other over a Red pawn, Black to move.
FenCannons ==
  <<<<"3", "k", "5", "/", "9", "/", "9", "/", "4", "c", "4", "/", "9", "/", "9", "/", "4", "P", "4", "/", "4", "C", "4", "/", "9", "/", "4", "K", "4">>, "b">>

\* "3k5/9/9/9/2n1n4/9/9/9/9/5K3 b": Black, to move and not in check, has two horses.
FenBlackMajors ==
  <<<<"3", "k", "5", "/", "9", "/", "9", "/", "9", "/", "2", "n", "1", "n", "4", "/", "9", "/", "9", "/", "9", "/", "9", "/", "5", "K", "3">>, "b">>

\* "3k5/9/6p2/6P2/R1n6/9/9/9/9/5K3 w": Red can take a horse with its rook and a pawn with its pawn.
FenTwoCaptures ==
  <<<<"3", "k", "5", "/", "9", "/", "6", "p", "2", "/", "6", "P", "2", "/", "R", "1", "n", "6", "/", "9", "/", "9", "/", "9", "/", "9", "/", "5", "K", "3">>, "w">>

Roots ==
  {FenStalemate, FenCheckmate, FenMateInOne, FenCannons, FenLong, FenPawnBesideKing,
   FenBlackMajors, FenTwoCaptures}

\* Plies played on the board of FenCannons: the kings step aside and back.
KingShuffle ==
  <<MoveNew(3, 4, FALSE), MoveNew(85, 86, FALSE),
    MoveNew(4, 3, FALSE), MoveNew(86, 85, FALSE)>>

\* b after move_piece was called with each of moves.
RECURSIVE Played(_, _)
Played(b, moves) ==
  IF moves = <<>> THEN b
  ELSE Played(CHOOSE moved \in {move_piece(b, Head(moves)).b} : TRUE, Tail(moves))

\* The boards search is called with: the roots as from_fen builds them, and
\* the board of FenCannons after the kings went aside and back twice, which
\* holds its position three times in its history, and after they went aside
\* and back once, which holds it twice.
RootBoards ==
  {from_fen(fen) : fen \in Roots}
    \cup {Played(from_fen(FenCannons), KingShuffle \o KingShuffle),
          Played(from_fen(FenCannons), KingShuffle)}

\* None, Some(0) and Some(1).
TimeLimits == {{}, {0}, {1}}

\* The first two of moves, as the book loader builds its moves: from the
\* squares alone.
BookMoves(moves) ==
  [i \in 1..(IF Len(moves) < 2 THEN Len(moves) ELSE 2) |->
     MoveNew(from_sq(moves[i]), to_sq(moves[i]), FALSE)] \o <<>>

\* The opening books: the empty book (no file), and a book that holds the
\* first moves generated on b under b's hash key.
Books(b) ==
  {<<>>} \cup {b.hash_key :> book_moves :
                 book_moves \in {BookMoves(PseudoLegalMoves(b))} \ {<<>>}}

InitSearch ==
  /\ board \in RootBoards
  /\ opening_book \in Books(board)
  /\ engine = EngineNew(BoardNew, {}, -1)
  /\ stack = <<>>
  /\ ret = NoRet
  /\ search = SearchIdle
  /\ trace = NoTrace
  /\ table = NoTable
  /\ uci = NoUci
  /\ made = <<>>
  /\ legal = NoList
  /\ undone = NotUndone
  /\ ops = 0

\* search is called with one of max_depths: the engine reset, the locals of
\* search set.
SearchCalled(max_depths) ==
  /\ search.pc = "idle"
  /\ \E max_depth \in max_depths, time_limit_ms \in TimeLimits :
       /\ engine' = SearchEngine(engine, board, time_limit_ms)
       /\ search' = SearchStart(max_depth)
  /\ trace' = [NoTrace EXCEPT !.entry = board]
  /\ UNCHANGED <<board, stack, ret, opening_book, boardVars>>
  /\ UNCHANGED frontVars

SearchCall == SearchCalled(0..MaxDepth)

\* The loop of search finds a book move and returns it.
BookMove ==
  /\ search.pc = "iterate"
  /\ \E book_move \in query_opening_book(opening_book, engine.board) :
       search' = SearchReturned(search, book_move, 0, search.current_depth)
  /\ trace' = [trace EXCEPT !.book_hit = TRUE]
  /\ board' = engine.board
  /\ UNCHANGED <<engine, stack, ret, opening_book, boardVars>>
  /\ UNCHANGED frontVars

\* The loop of search finds no book move and calls negamax at the root.
IterationStart ==
  /\ search.pc = "iterate"
  /\ query_opening_book(opening_book, engine.board) = {}
  /\ search' = [search EXCEPT !.pc = "negamax"]
  /\ stack' = <<Call(search.current_depth, -MATE_VALUE, MATE_VALUE, 0)>>
  /\ UNCHANGED <<board, engine, ret, trace, opening_book, boardVars>>
  /\ UNCHANGED frontVars

\* One step of the innermost call of negamax.
Step(m) ==
  /\ engine' = [m.s EXCEPT !.in_time = -1]
  /\ stack' = m.stack
  /\ ret' = m.ret
  /\ trace' = [trace EXCEPT !.steps = @ \cup {m.did}, !.did = m.did]
  /\ UNCHANGED <<board, search, opening_book, boardVars>>
  /\ UNCHANGED frontVars

\* A call of negamax runs from its entry: it returns (stopped, a
\* repetition, the table's result, the value of quiescence_search), or makes
\* the null move and calls negamax, or generates its moves.  Each reading of
\* the clock is in time or not.
NegamaxEnter ==
  /\ search.pc = "negamax"
  /\ stack # <<>>
  /\ Top(stack).pc = "call"
  /\ \E r \in {NegamaxEntered(engine, stack)} :
       \E in_time \in InTimes(engine, r.s.nodes_searched) :
         IF in_time = -1 THEN Step(r)
         ELSE \E m \in {NegamaxEntered([engine EXCEPT !.in_time = in_time], stack)} : Step(m)

\* The null-move search has returned.
NullMoveReturn ==
  /\ search.pc = "negamax"
  /\ stack # <<>>
  /\ Top(stack).pc = "null"
  /\ ret.valid
  /\ \E m \in {NullMoveReturned(engine, stack, Top(stack), ret.score)} : Step(m)

\* The move loop makes its next move, and calls negamax if the move is legal.
MoveNext ==
  /\ search.pc = "negamax"
  /\ stack # <<>>
  /\ Top(stack).pc = "loop"
  /\ ~Top(stack).l.done
  /\ Top(stack).i <= Len(Top(stack).moves)
  /\ \E m \in {MoveTaken(engine, stack, Top(stack))} : Step(m)

\* The search of a move has returned.
MoveReturn ==
  /\ search.pc = "negamax"
  /\ stack # <<>>
  /\ Top(stack).pc \in {"full", "reduced"}
  /\ ret.valid
  /\ \E m \in {MoveReturned(engine, stack, Top(stack), ret.score)} : Step(m)

\* The move loop is over (a beta cutoff, or no move left): negamax returns.
NegamaxReturn ==
  /\ search.pc = "negamax"
  /\ stack # <<>>
  /\ Top(stack).pc = "loop"
  /\ Top(stack).l.done \/ Top(stack).i > Len(Top(stack).moves)
  /\ \E m \in {NegamaxEnd(engine, stack, Top(stack))} : Step(m)

\* The root call of negamax has returned to search: search returns, or goes
\* on to the next depth.  search returning hands the board back.
IterationEnd ==
  /\ search.pc = "negamax"
  /\ stack = <<>>
  /\ ret.valid
  /\ search' = IterationDone(search, engine.stop_search, ret.mv, ret.score)
  /\ trace' = IF engine.stop_search
              THEN [trace EXCEPT !.stopped_in = search.current_depth, !.partial = ret]
              ELSE [trace EXCEPT !.iterations =
                      Append(@, [depth |-> search.current_depth, mv |-> ret.mv,
                                 score |-> ret.score])]
  /\ board' = IF search'.pc = "returned" THEN engine.board ELSE board
  /\ ret' = NoRet
  /\ UNCHANGED <<engine, stack, opening_book, boardVars>>
  /\ UNCHANGED frontVars

NextSearch ==
  \/ SearchCall
  \/ BookMove
  \/ IterationStart
  \/ NegamaxEnter
  \/ NullMoveReturn
  \/ MoveNext
  \/ MoveReturn
  \/ NegamaxReturn
  \/ IterationEnd

SpecSearch == InitSearch /\ [][NextSearch]_vars

\* ------------------------------------------------------------------------
\* Searching a position one ply before a stalemate: Board::from_fen, then one
\* call of Engine::search deep enough for the null move at ply 1
\* ------------------------------------------------------------------------

\* The deepest max_depth of these searches.
MaxPinnedDepth == 4

\* "5k3/9/3c5/9/9/9/9/3N5/3N5/3K5 b": the Black cannon pins both Red horses on file d; once the Black king
\* steps to file e, the Red king has no square and Red has no legal move.
FenPinnedHorses ==
  <<<<"5", "k", "3", "/", "9", "/", "3", "c", "5", "/", "9", "/", "9", "/", "9", "/", "9", "/", "3", "N", "5", "/", "3", "N", "5", "/", "3", "K", "5">>, "b">>

InitPinned ==
  /\ board = from_fen(FenPinnedHorses)
  /\ opening_book \in Books(board)
  /\ engine = EngineNew(BoardNew, {}, -1)
  /\ stack = <<>>
  /\ ret = NoRet
  /\ search = SearchIdle
  /\ trace = NoTrace
  /\ table = NoTable
  /\ uci = NoUci
  /\ made = <<>>
  /\ legal = NoList
  /\ undone = NotUndone
  /\ ops = 0

SearchCallPinned == SearchCalled(0..MaxPinnedDepth)

NextPinned ==
  \/ SearchCallPinned
  \/ BookMove
  \/ IterationStart
  \/ NegamaxEnter
  \/ NullMoveReturn
  \/ MoveNext
  \/ MoveReturn
  \/ NegamaxReturn
  \/ IterationEnd

SpecPinned == InitPinned /\ [][NextPinned]_vars

\* ------------------------------------------------------------------------
\* Searching a position deep enough for transpositions between iterations:
\* Board::from_fen, then one call of Engine::search
\* ------------------------------------------------------------------------

\* The deepest max_depth of these searches.
MaxDeepDepth == 6

InitDeep ==
  /\ board = from_fen(FenBlackMajors)
  /\ opening_book = <<>>
  /\ engine = EngineNew(BoardNew, {}, -1)
  /\ stack = <<>>
  /\ ret = NoRet
  /\ search = SearchIdle
  /\ trace = NoTrace
  /\ table = NoTable
  /\ uci = NoUci
  /\ made = <<>>
  /\ legal = NoList
  /\ undone = NotUndone
  /\ ops = 0

SearchCallDeep == SearchCalled(1..MaxDeepDepth)

NextDeep ==
  \/ SearchCallDeep
  \/ IterationStart
  \/ NegamaxEnter
  \/ MoveNext
  \/ MoveReturn
  \/ NegamaxReturn
  \/ IterationEnd

SpecDeep == InitDeep /\ [][NextDeep]_vars

\* ------------------------------------------------------------------------
\* Searching a position in which a check is answered by a check:
\* Board::from_fen, then one call of Engine::search that runs to its end
\* ------------------------------------------------------------------------

\* The deepest max_depth of these searches.
MaxCheckDepth == 3

\* The calls of negamax that may be open at once: a call that would be the
\* next one is never made.
MaxOpenCalls == 8

\* "5k3/3r5/9/3n2N2/9/9/9/9/9/3K5 w": the Red horse checks from e7; the Black horse answers
\* d6-e8, which blocks the leg of the Red horse and opens file d for the rook
\* on d8.
FenCrossCheck ==
  <<<<"5", "k", "3", "/", "3", "r", "5", "/", "9", "/", "3", "n", "2", "N", "2", "/", "9", "/", "9", "/", "9", "/", "9", "/", "9", "/", "3", "K", "5">>, "w">>

InitChecks ==
  /\ board = from_fen(FenCrossCheck)
  /\ opening_book = <<>>
  /\ engine = EngineNew(BoardNew, {}, -1)
  /\ stack = <<>>
  /\ ret = NoRet
  /\ search = SearchIdle
  /\ trace = NoTrace
  /\ table = NoTable
  /\ uci = NoUci
  /\ made = <<>>
  /\ legal = NoList
  /\ undone = NotUndone
  /\ ops = 0

SearchCallChecks == SearchCalled(1..MaxCheckDepth)

\* MoveNext while another call of negamax may be opened.
MoveNextOpen ==
  /\ Len(stack) < MaxOpenCalls
  /\ MoveNext

NextChecks ==
  \/ SearchCallChecks
  \/ IterationStart
  \/ NegamaxEnter
  \/ MoveNextOpen
  \/ MoveReturn
  \/ NegamaxReturn
  \/ IterationEnd

\* The steps of negamax.
NegamaxSteps ==
  \/ NegamaxEnter
  \/ MoveNextOpen
  \/ MoveReturn
  \/ NegamaxReturn

\* ENABLED <<NegamaxSteps>>_vars, written as the guards of the four steps: a
\* call is at its entry, at a move of its loop that may be searched, at the
\* return of a move's search, or at the end of its loop.
NegamaxCanStep ==
  /\ search.pc = "negamax"
  /\ stack # <<>>
  /\ \/ Top(stack).pc = "call"
     \/ /\ Top(stack).pc = "loop"
        /\ \/ Top(stack).l.done
           \/ Top(stack).i > Len(Top(stack).moves)
           \/ Len(stack) < MaxOpenCalls
     \/ Top(stack).pc \in {"full", "reduced"} /\ ret.valid

\* WF_vars(NegamaxSteps) with ENABLED written as NegamaxCanStep.
NegamaxRuns == []<>(~NegamaxCanStep) \/ []<><<NegamaxSteps>>_vars

\* The search is one sequential computation: a step that can be taken is
\* taken.
SpecChecks ==
  /\ InitChecks
  /\ [][NextChecks]_vars
  /\ WF_vars(SearchCallChecks)
  /\ WF_vars(IterationStart)
  /\ WF_vars(IterationEnd)
  /\ NegamaxRuns

\* ------------------------------------------------------------------------
\* Kings, guards and bishops at home: a board with the two kings and at most
\* one guard or bishop, then moves taken from generate_capture_moves and
\* generate_quiet_moves and made by move_piece
\* ------------------------------------------------------------------------

\* The number of moves made on one board.
MaxPalacePlies == 2

\* The squares of the palace on ranks lo..lo+2 of the array (0: Black's, 7:
\* Red's).
PalaceSquares(lo) == {sq_to_idx(r, c) : r \in lo..(lo + 2), c \in 3..5}

RECURSIVE PlaceAll(_, _)
\* set_piece for each <<square, piece>> of placed.
PlaceAll(b, placed) ==
  IF placed = {} THEN b
  ELSE LET p == CHOOSE q \in placed : \A o \in placed : q[1] <= o[1]
       IN PlaceAll(set_piece(b, p[1], p[2]), placed \ {p})

\* The board from_fen builds for the pieces placed and the side to move pl.
PlacedBoard(placed, pl) == FinishFen(SetPlayer(PlaceAll(BoardNew, placed), pl))

\* The two kings anywhere in their palaces, either side to move.
KingsAtHome ==
  {PlacedBoard({<<rk, RKing>>, <<bk, BKing>>}, pl) :
     rk \in PalaceSquares(7), bk \in PalaceSquares(0), pl \in {"Red", "Black"}}

\* A guard anywhere in its palace beside its king, its side to move.
GuardsAtHome ==
  UNION {{PlacedBoard({<<rk, RKing>>, <<3, BKing>>, <<g, RGuard>>}, "Red") :
            g \in PalaceSquares(7) \ {rk}} : rk \in {84, 68}} \cup
  UNION {{PlacedBoard({<<84, RKing>>, <<bk, BKing>>, <<g, BGuard>>}, "Black") :
            g \in PalaceSquares(0) \ {bk}} : bk \in {3, 23}}

\* A bishop anywhere on its half of the board, its side to move.
BishopsAtHome ==
  {PlacedBoard({<<84, RKing>>, <<3, BKing>>, <<sq, RBishop>>}, "Red") :
     sq \in red_half_mask \ {84}} \cup
  {PlacedBoard({<<84, RKing>>, <<3, BKing>>, <<sq, BBishop>>}, "Black") :
     sq \in black_half_mask \ {3}}

InitPalace ==
  /\ board \in KingsAtHome \cup GuardsAtHome \cup BishopsAtHome
  /\ made = <<>>
  /\ legal = NoList
  /\ undone = NotUndone
  /\ ops = 0
  /\ engine = EngineNew(BoardNew, {}, -1)
  /\ stack = <<>>
  /\ ret = NoRet
  /\ search = SearchIdle
  /\ opening_book = <<>>
  /\ trace = NoTrace
  /\ table = NoTable
  /\ uci = NoUci

\* One of the generated moves is made.
PlayGenerated ==
  /\ ops < MaxPalacePlies
  /\ \E mv \in Range(PseudoLegalMoves(board)) :
       \E r \in {move_piece(board, mv)} :
         /\ board' = r.b
         /\ made' = Append(made, [mv |-> mv, captured |-> r.captured, before |-> board])
  /\ ops' = ops + 1
  /\ UNCHANGED <<legal, undone, searchVars>>
  /\ UNCHANGED frontVars

NextPalace == PlayGenerated

SpecPalace == InitPalace /\ [][NextPalace]_vars

\* ------------------------------------------------------------------------
\* A game: Board::from_fen, then the collaborator plays moves it takes from
\* generate_legal_moves
\* ------------------------------------------------------------------------

\* The number of moves played in one game.
\* "rnbakabnr/9/1c5c1/p1p1p1p1p/9/9/P1P1P1P1P/1C5C1/9/RNBAKABNR w": the standard opening position.
FenStart ==
  <<<<"r", "n", "b", "a", "k", "a", "b", "n", "r", "/", "9", "/", "1", "c", "5", "c", "1", "/", "p", "1", "p", "1", "p", "1", "p", "1", "p", "/", "9", "/", "9", "/", "P", "1", "P", "1", "P", "1", "P", "1", "P", "/", "1", "C", "5", "C", "1", "/", "9", "/", "R", "N", "B", "A", "K", "A", "B", "N", "R">>, "w">>

\* ------------------------------------------------------------------------
\* uci/src/main.rs: the front-end.  A line of stdin is held as main holds it
\* after split_whitespace: command is parts[0], arg is parts[1], fen the
\* fields after "fen" (the layout a sequence of characters), moves the move
\* strings after "moves" (each a sequence of characters), parts the other
\* tokens.
\* ------------------------------------------------------------------------

Line(command) == [command |-> command, arg |-> "", fen |-> <<>>, moves |-> <<>>, parts |-> <<>>]

\* ch as u8 - b'a', for the letters a to j.
FileOfChar(ch) ==
  CASE ch = "a" -> 0 [] ch = "b" -> 1 [] ch = "c" -> 2 [] ch = "d" -> 3 [] ch = "e" -> 4
    [] ch = "f" -> 5 [] ch = "g" -> 6 [] ch = "h" -> 7 [] ch = "i" -> 8 [] ch = "j" -> 9

\* parse_uci_move on a move string whose first and third characters are
\* letters from a to j and whose second and fourth are digits.  some is
\* FALSE for None; panicked is TRUE when board.board[to_sq] is out of range.
parse_uci_move(b, move_str) ==
  IF Len(move_str) # 4 THEN [some |-> FALSE, panicked |-> FALSE, mv |-> NullMove]
  ELSE LET from_file == FileOfChar(move_str[1])
           from_rank == to_digit(move_str[2])
           to_file == FileOfChar(move_str[3])
           to_rank == to_digit(move_str[4])
           from == (9 - from_rank) * 9 + from_file
           to == (9 - to_rank) * 9 + to_file
       IN IF to \notin Squares THEN [some |-> FALSE, panicked |-> TRUE, mv |-> NullMove]
          ELSE [some |-> TRUE, panicked |-> FALSE,
                mv |-> MoveNew(from, to, b.board[to] # Empty)]

\* move_piece panics: the from-square is off the board, or holds no piece
\* (get_bb_index and get_zobrist_idx of Empty are None), or the history is
\* full.
move_piece_panics(b, mv) ==
  \/ from_sq(mv) \notin Squares
  \/ to_sq(mv) \notin Squares
  \/ b.board[from_sq(mv)] = Empty
  \/ b.history_ply + 1 >= MAX_HISTORY

RECURSIVE ApplyUciMoves(_, _)
\* The loop of the position handler over the move strings.
ApplyUciMoves(b, move_strs) ==
  IF move_strs = <<>> THEN [panicked |-> FALSE, b |-> b]
  ELSE LET parsed == parse_uci_move(b, Head(move_strs))
       IN IF parsed.panicked THEN [panicked |-> TRUE, b |-> b]
          ELSE IF ~parsed.some THEN ApplyUciMoves(b, Tail(move_strs))
          ELSE IF move_piece_panics(b, parsed.mv) THEN [panicked |-> TRUE, b |-> b]
          ELSE ApplyUciMoves(CHOOSE moved \in {move_piece(b, parsed.mv).b} : TRUE,
                             Tail(move_strs))

RECURSIVE FenLayoutPanics(_, _, _, _)
\* The loop of from_fen from character i on, with its rank and file
\* counters: from_fen_char(ch).unwrap() fails, or set_piece indexes past
\* square 89.
FenLayoutPanics(layout, i, rank, file) ==
  IF i > Len(layout) THEN FALSE
  ELSE IF layout[i] = "/" THEN FenLayoutPanics(layout, i + 1, rank + 1, 0)
  ELSE IF to_digit(layout[i]) >= 0
       THEN FenLayoutPanics(layout, i + 1, rank, file + to_digit(layout[i]))
  ELSE \/ from_fen_char(layout[i]) = Empty
       \/ rank * 9 + file \notin Squares
       \/ FenLayoutPanics(layout, i + 1, rank, file + 1)

\* from_fen panics: parts.next().unwrap() finds no field, or the loop fails.
from_fen_panics(fen) ==
  \/ Len(fen) < 1
  \/ FenLayoutPanics(fen[1], 1, 0, 0)
  \/ Len(fen) < 2

\* The position handler: "continue" when parts[1] is neither startpos nor
\* fen, "panic" when from_fen, parse_uci_move or move_piece panics, else the
\* new board.
HandlePosition(line) ==
  IF line.arg \notin {"startpos", "fen"} THEN [kind |-> "continue", b |-> BoardNew]
  ELSE LET fen == IF line.arg = "startpos" THEN FenStart ELSE line.fen
       IN IF from_fen_panics(fen) THEN [kind |-> "panic", b |-> BoardNew]
          ELSE LET applied == ApplyUciMoves(from_fen(fen), line.moves)
               IN [kind |-> IF applied.panicked THEN "panic" ELSE "board", b |-> applied.b]

\* The token after the first token named name, parsed as a number of one
\* digit: -1 when there is none or it does not parse.
NumberAfter(parts, name) ==
  IF \E i \in 1..Len(parts) : parts[i] = name
  THEN LET idx == CHOOSE i \in 1..Len(parts) :
                    parts[i] = name /\ \A j \in 1..(i - 1) : parts[j] # name
       IN IF idx + 1 <= Len(parts) THEN to_digit(parts[idx + 1]) ELSE -1
  ELSE -1

\* parse_go_command on parts holding none of wtime, btime, winc, binc and
\* movestogo: <<depth, time_limit_ms>>.
parse_go_command(parts) ==
  IF "infinite" \in Range(parts) THEN <<2147483647, {}>>
  ELSE <<IF NumberAfter(parts, "depth") >= 0 THEN NumberAfter(parts, "depth") ELSE 64,
         IF NumberAfter(parts, "movetime") >= 0 THEN {NumberAfter(parts, "movetime")}
         ELSE {}>>

MaxPlies == 1

\* "3k5/9/9/9/9/9/9/9/9/3K5 w": the bare kings facing each other on file d.
FenKingsFace ==
  <<<<"3", "k", "5", "/", "9", "/", "9", "/", "9", "/", "9", "/", "9", "/", "9", "/", "9", "/", "9", "/", "3", "K", "5">>, "w">>

\* "3k5/9/9/9/3N5/9/9/9/9/3K5 w": a Red horse alone between the kings on file d.
FenHorseBetweenKings ==
  <<<<"3", "k", "5", "/", "9", "/", "9", "/", "9", "/", "3", "N", "5", "/", "9", "/", "9", "/", "9", "/", "9", "/", "3", "K", "5">>, "w">>

\* "3k5/4r4/9/9/9/9/9/9/4R4/4K4 b": kings on neighbouring files, a rook before each.
FenRooksBesideKings ==
  <<<<"3", "k", "5", "/", "4", "r", "4", "/", "9", "/", "9", "/", "9", "/", "9", "/", "9", "/", "9", "/", "4", "R", "4", "/", "4", "K", "4">>, "b">>

GameFens == {FenStart, FenKingsFace, FenHorseBetweenKings, FenRooksBesideKings, FenPawnBesideKing}

InitGame ==
  /\ \E fen \in GameFens : board = from_fen(fen)
  /\ made = <<>>
  /\ legal = NoList
  /\ undone = NotUndone
  /\ ops = 0
  /\ engine = EngineNew(BoardNew, {}, -1)
  /\ stack = <<>>
  /\ ret = NoRet
  /\ search = SearchIdle
  /\ opening_book = <<>>
  /\ trace = NoTrace
  /\ table = NoTable
  /\ uci = NoUci

\* The collaborator asks for the legal moves of the position.
EnumerateMoves ==
  /\ ~legal.valid
  /\ board.history_ply + 1 < MAX_HISTORY
  /\ \E r \in {generate_legal_moves(board, <<>>)} :
       /\ board' = r.b
       /\ legal' = [valid |-> TRUE, moves |-> r.moves]
  /\ UNCHANGED <<made, undone, ops, searchVars>>
  /\ UNCHANGED frontVars

\* The collaborator plays one of the moves it was given.
PlayMove ==
  /\ legal.valid
  /\ ops < MaxPlies
  /\ \E mv \in Range(legal.moves) :
       \E r \in {move_piece(board, mv)} :
         /\ board' = r.b
         /\ made' = Append(made, [mv |-> mv, captured |-> r.captured, before |-> board])
  /\ legal' = NoList
  /\ ops' = ops + 1
  /\ UNCHANGED <<undone, searchVars>>
  /\ UNCHANGED frontVars

NextGame == EnumerateMoves \/ PlayMove

SpecGame == InitGame /\ [][NextGame]_vars

\* ------------------------------------------------------------------------
\* The cannon on a board of rooks: get_cannon_moves_bb and the move lists
\* generate_moves makes of it, for every small occupancy of the cannon's
\* rank and file
\* ------------------------------------------------------------------------

MaxBlockers == 3

\* The square a Red cannon is put on: its home b2, with rays of 7, 7, 2 and
\* 1 squares.
CannonSquares == {64}

\* The squares of the rank and of the file of sq, sq excepted.
LinesThrough(sq) == {t \in Squares : t # sq /\ (t \div 9 = sq \div 9 \/ t % 9 = sq % 9)}

RECURSIVE SubsetsUpTo(_, _)
\* The subsets of S of at most n elements.
SubsetsUpTo(S, n) ==
  IF n = 0 THEN {{}}
  ELSE LET smaller == SubsetsUpTo(S, n - 1)
       IN smaller \cup {x \cup {q} : x \in smaller, q \in S}

RECURSIVE SetPieces(_, _, _)
\* set_piece for every square of sqs, lowest first.
SetPieces(b, sqs, piece) ==
  IF sqs = {} THEN b
  ELSE SetPieces(set_piece(b, trailing_zeros(sqs), piece),
                 sqs \ {trailing_zeros(sqs)}, piece)

\* Red to move with a cannon on sq, Red rooks on reds, Black rooks on blacks.
CannonBoard(sq, reds, blacks) ==
  SetPieces(SetPieces(set_piece(BoardNew, sq, RCannon), reds, RRook), blacks, BRook)

InitCannon ==
  /\ \E sq \in CannonSquares :
       \E occ \in SubsetsUpTo(LinesThrough(sq), MaxBlockers) :
         \E reds \in SUBSET occ : board = CannonBoard(sq, reds, occ \ reds)
  /\ made = <<>>
  /\ legal = NoList
  /\ undone = NotUndone
  /\ ops = 0
  /\ engine = EngineNew(BoardNew, {}, -1)
  /\ stack = <<>>
  /\ ret = NoRet
  /\ search = SearchIdle
  /\ opening_book = <<>>
  /\ trace = NoTrace
  /\ table = NoTable
  /\ uci = NoUci

\* generate_capture_moves then generate_quiet_moves into one list, as
\* generate_legal_moves calls them.
GeneratePseudoLegal ==
  /\ ~legal.valid
  /\ legal' = [valid |-> TRUE, moves |-> PseudoLegalMoves(board)]
  /\ UNCHANGED <<board, made, undone, ops, searchVars>>
  /\ UNCHANGED frontVars

NextCannon == GeneratePseudoLegal

SpecCannon == InitCannon /\ [][NextCannon]_vars

\* ------------------------------------------------------------------------
\* The transposition table under the calls of a collaborator: probe, store
\* and clear in any order
\* ------------------------------------------------------------------------

TableCapacity == 2

MaxCalls == 3

\* The hash keys used: more keys than slots, so that keys share a slot, the
\* key 0 among them.
TableHashes == 0..TableCapacity

StoreDepths == 0..2

\* The score, flag and best move of a store.
StorePayloads ==
  {[score |-> -3, flag |-> "UpperBound", best_move |-> MoveNew(64, 67, FALSE)],
   [score |-> 3, flag |-> "LowerBound", best_move |-> MoveNew(70, 67, TRUE)]}

InitTable ==
  /\ board = BoardNew
  /\ made = <<>>
  /\ legal = NoList
  /\ undone = NotUndone
  /\ ops = 0
  /\ engine = EngineNew(BoardNew, {}, -1)
  /\ stack = <<>>
  /\ ret = NoRet
  /\ search = SearchIdle
  /\ opening_book = <<>>
  /\ trace = NoTrace
  /\ table = [NoTable EXCEPT !.entries = TranspositionTableNew(TableCapacity)]
  /\ uci = NoUci

TableProbe ==
  /\ table.calls < MaxCalls
  /\ \E hash_key \in TableHashes :
       table' = [table EXCEPT
                   !.last = [op |-> "probe", hash_key |-> hash_key,
                             before |-> table.entries,
                             result |-> probe(table.entries, hash_key)],
                   !.calls = @ + 1]
  /\ UNCHANGED <<board, boardVars, searchVars, uci>>

TableStore ==
  /\ table.calls < MaxCalls
  /\ \E hash_key \in TableHashes, depth \in StoreDepths, p \in StorePayloads :
       table' = [table EXCEPT
                   !.entries = store(@, hash_key, depth, p.score, p.flag, p.best_move),
                   !.stores = @ \cup {[hash_key |-> hash_key, depth |-> depth,
                                       score |-> p.score, flag |-> p.flag,
                                       best_move |-> p.best_move]},
                   !.last = [op |-> "store", hash_key |-> hash_key, depth |-> depth,
                             before |-> table.entries,
                             entry |-> [hash_key |-> hash_key, depth |-> depth,
                                        score |-> p.score, flag |-> p.flag,
                                        best_move |-> p.best_move]],
                   !.calls = @ + 1]
  /\ UNCHANGED <<board, boardVars, searchVars, uci>>

TableClear ==
  /\ table.calls < MaxCalls
  /\ table' = [table EXCEPT !.entries = clear(@),
                            !.last = [op |-> "clear", before |-> table.entries],
                            !.calls = @ + 1]
  /\ UNCHANGED <<board, boardVars, searchVars, uci>>

NextTable == TableProbe \/ TableStore \/ TableClear

SpecTable == InitTable /\ [][NextTable]_vars

\* ------------------------------------------------------------------------
\* The front-end under a collaborator that writes the lines of a script to
\* stdin, at any time; main reads a line when it is not inside a handler
\* ------------------------------------------------------------------------

\* "4k4/9/9/9/9/9/9/9/9/3X5 w": X is no piece letter.
FenUnknownLetter ==
  <<<<"4", "k", "4", "/", "9", "/", "9", "/", "9", "/", "9", "/", "9", "/", "9", "/", "9", "/", "9", "/", "3", "X", "5">>, "w">>

\* "4k4/9/9/9/9/9/9/9/9/3K5": no active colour.
FenNoColour ==
  <<<<"4", "k", "4", "/", "9", "/", "9", "/", "9", "/", "9", "/", "9", "/", "9", "/", "9", "/", "9", "/", "3", "K", "5">>>>

\* "9k/9/9/9/9/9/9/9/9/3K5 w": the first rank describes ten files.
FenTenFiles ==
  <<<<"9", "k", "/", "9", "/", "9", "/", "9", "/", "9", "/", "9", "/", "9", "/", "9", "/", "9", "/", "3", "K", "5">>, "w">>

\* "4k4/9/9/9/9/9/9/9/9/3K5/4R4 w": eleven ranks.
FenElevenRanks ==
  <<<<"4", "k", "4", "/", "9", "/", "9", "/", "9", "/", "9", "/", "9", "/", "9", "/", "9", "/", "9", "/", "3", "K", "5", "/", "4", "R", "4">>, "w">>

PositionStartpos(moves) == [Line("position") EXCEPT !.arg = "startpos", !.moves = moves]

PositionFen(fen) == [Line("position") EXCEPT !.arg = "fen", !.fen = fen]

Go(parts) == [Line("go") EXCEPT !.parts = parts]

\* The scripts of the collaborator.
Scripts ==
  {<<PositionFen(FenLong), Go(<<"depth", "3">>), Line("stop"), Line("isready")>>,
   <<PositionFen(FenCannons), Go(<<"depth", "2">>), Line("stop")>>,
   <<Go(<<"depth", "1">>), PositionFen(FenCheckmate), Go(<<"depth", "0">>), Line("quit")>>,
   <<PositionStartpos(<<<<"h", "2", "e", "2">>, <<"h", "9", "g", "7">>>>),
     Line("ucinewgame"), Line("stop"), Line("quit"), Line("isready")>>,
   <<PositionStartpos(<<<<"a", "0", "a", "9">>>>), Line("isready")>>,
   <<PositionStartpos(<<<<"h", "2", "e", "2", "x">>, <<"a", "0", "a", "5">>>>)>>,
   <<PositionStartpos(<<<<"j", "0", "a", "0">>>>), Line("isready")>>,
   <<PositionStartpos(<<<<"e", "4", "e", "5">>>>)>>,
   <<PositionFen(FenCannons), [Line("position") EXCEPT !.arg = "current"],
     PositionFen(FenUnknownLetter)>>,
   <<PositionFen(FenNoColour)>>,
   <<PositionFen(FenCannons), PositionFen(FenTenFiles)>>,
   <<PositionFen(FenElevenRanks)>>}

UciNew(script) ==
  [stdin |-> <<>>, pc |-> "read", has_board |-> FALSE, script |-> script, sent |-> 0,
   log |-> <<>>, stop_at |-> 0, last |-> [command |-> "", kind |-> ""]]

InitUci ==
  /\ \E script \in Scripts : uci = UciNew(script)
  /\ opening_book \in Books(from_fen(FenLong))
  /\ board = BoardNew
  /\ engine = EngineNew(BoardNew, {}, -1)
  /\ stack = <<>>
  /\ ret = NoRet
  /\ search = SearchIdle
  /\ trace = NoTrace
  /\ table = NoTable
  /\ made = <<>>
  /\ legal = NoList
  /\ undone = NotUndone
  /\ ops = 0

\* The collaborator writes its next line.  stop_at keeps the iteration a
\* search was in when "stop" was written during it.
CollaboratorWrites ==
  /\ uci.sent < Len(uci.script)
  /\ uci.pc \in {"read", "go"}
  /\ uci' = [uci EXCEPT
               !.stdin = Append(@, uci.script[uci.sent + 1]),
               !.sent = @ + 1,
               !.stop_at = IF /\ uci.script[uci.sent + 1].command = "stop"
                              /\ uci.pc = "go"
                              /\ search.pc \in {"iterate", "negamax"}
                           THEN search.current_depth ELSE @]
  /\ UNCHANGED <<board, boardVars, searchVars, table>>

\* main has the next line: uci with the line taken off stdin.
Reads(command) ==
  /\ uci.pc = "read"
  /\ uci.stdin # <<>>
  /\ Head(uci.stdin).command = command

LineRead == [uci EXCEPT !.stdin = Tail(@),
                        !.last = [command |-> Head(uci.stdin).command, kind |-> ""]]

\* "position": the whole handler.
ReadPosition ==
  /\ Reads("position")
  /\ \E outcome \in {HandlePosition(Head(uci.stdin))} :
       /\ board' = IF outcome.kind = "board" THEN outcome.b ELSE board
       /\ uci' = [LineRead EXCEPT
                    !.pc = IF outcome.kind = "panic" THEN "panicked" ELSE "read",
                    !.has_board = IF outcome.kind = "board" THEN TRUE ELSE @,
                    !.last = [command |-> "position", kind |-> outcome.kind,
                              line |-> Head(uci.stdin), had_board |-> uci.has_board,
                              board_before |-> board]]
  /\ UNCHANGED <<boardVars, searchVars, table>>

\* "go": search is called when there is a board; main is inside the handler
\* until search returns.
ReadGo ==
  /\ Reads("go")
  /\ IF uci.has_board
     THEN \E go \in {parse_go_command(Head(uci.stdin).parts)} :
            /\ engine' = SearchEngine(engine, board, go[2])
            /\ search' = SearchStart(go[1])
            /\ trace' = [NoTrace EXCEPT !.entry = board]
            /\ uci' = [LineRead EXCEPT !.pc = "go", !.stop_at = 0]
     ELSE /\ uci' = LineRead
          /\ UNCHANGED <<engine, search, trace>>
  /\ UNCHANGED <<board, stack, ret, opening_book, boardVars, table>>

\* search has returned: the handler writes the best move to the log and main
\* goes back to reading.
GoReturns ==
  /\ uci.pc = "go"
  /\ search.pc = "returned"
  /\ uci' = [uci EXCEPT !.pc = "read", !.log = Append(@, search.result[1]),
                        !.last = [command |-> "go", kind |-> "returned"]]
  /\ search' = [search EXCEPT !.pc = "idle"]
  /\ UNCHANGED <<board, engine, stack, ret, opening_book, trace, boardVars, table>>

\* "stop"
ReadStop ==
  /\ Reads("stop")
  /\ engine' = [engine EXCEPT !.stop_search = TRUE]
  /\ uci' = LineRead
  /\ UNCHANGED <<board, stack, ret, search, opening_book, trace, boardVars, table>>

\* "ucinewgame"
ReadNewGame ==
  /\ Reads("ucinewgame")
  /\ engine' = tt_clear(clear_history(engine))
  /\ uci' = LineRead
  /\ UNCHANGED <<board, stack, ret, search, opening_book, trace, boardVars, table>>

\* "quit"
ReadQuit ==
  /\ Reads("quit")
  /\ uci' = [LineRead EXCEPT !.pc = "quit"]
  /\ UNCHANGED <<board, boardVars, searchVars, table>>

\* "uci", "isready" and every other command: nothing of the state changes.
ReadOther ==
  /\ uci.pc = "read"
  /\ uci.stdin # <<>>
  /\ Head(uci.stdin).command \notin {"position", "go", "stop", "ucinewgame", "quit"}
  /\ uci' = LineRead
  /\ UNCHANGED <<board, boardVars, searchVars, table>>

NextUci ==
  \/ CollaboratorWrites
  \/ ReadPosition \/ ReadGo \/ GoReturns \/ ReadStop \/ ReadNewGame \/ ReadQuit \/ ReadOther
  \/ BookMove \/ IterationStart
  \/ NegamaxEnter \/ NullMoveReturn \/ MoveNext \/ MoveReturn \/ NegamaxReturn
  \/ IterationEnd

SpecUci == InitUci /\ [][NextUci]_vars

\* ------------------------------------------------------------------------
\* A long game: the position handler applies move after move to the board
\* (uci main.rs, "position ... moves ..."), and search is called on it
\* ------------------------------------------------------------------------

\* The deepest max_depth of the searches of the long game.
MaxLateDepth == 1

\* "3k5/9/9/9/9/9/9/9/9/5K3 w": the bare kings on files d and f.
FenKingsApart ==
  <<<<"3", "k", "5", "/", "9", "/", "9", "/", "9", "/", "9", "/", "9", "/", "9", "/", "9", "/", "9", "/", "5", "K", "3">>, "w">>

\* The moves the collaborator sends, over and over: each king steps forward
\* and back.
GameCycle ==
  <<<<"f", "0", "f", "1">>, <<"d", "9", "d", "8">>,
    <<"f", "1", "f", "0">>, <<"d", "8", "d", "9">>>>

\* No index of the history has been out of range: the process has not
\* panicked.
Alive ==
  /\ board.history_ply < MAX_HISTORY
  /\ engine.board.history_ply < MAX_HISTORY

InitLong ==
  /\ board = from_fen(FenKingsApart)
  /\ opening_book = <<>>
  /\ engine = EngineNew(BoardNew, {}, -1)
  /\ stack = <<>>
  /\ ret = NoRet
  /\ search = SearchIdle
  /\ trace = NoTrace
  /\ table = NoTable
  /\ uci = NoUci
  /\ made = <<>>
  /\ legal = NoList
  /\ undone = NotUndone
  /\ ops = 0

\* The position handler applies the next move string: parse_uci_move, then
\* move_piece.
ApplyGameMove ==
  /\ Alive
  /\ search.pc = "idle"
  /\ \E parsed \in {parse_uci_move(board, GameCycle[(board.history_ply % 4) + 1])} :
       /\ parsed.some
       /\ \E r \in {move_piece(board, parsed.mv)} :
            /\ board' = r.b
            /\ made' = Append(made, [mv |-> parsed.mv, captured |-> r.captured,
                                     before |-> board])
  /\ legal' = NoList
  /\ ops' = ops + 1
  /\ UNCHANGED <<undone, searchVars>>
  /\ UNCHANGED frontVars

\* search called on the board once the game is long.
SearchCallLate ==
  /\ Alive
  /\ board.history_ply >= MAX_HISTORY - 1
  /\ SearchCalled(1..MaxLateDepth)

\* negamax is entered, unless the move before it ended the process.
NegamaxEnterAlive ==
  /\ Alive
  /\ NegamaxEnter

NextLong ==
  \/ ApplyGameMove
  \/ SearchCallLate
  \/ IterationStart
  \/ NegamaxEnterAlive
  \/ MoveNext
  \/ IterationEnd

SpecLong == InitLong /\ [][NextLong]_vars

\* ------------------------------------------------------------------------
\* The rules of movement, stated square by square (the reference the claims
\* about the attack predicate and the move generator compare the code with)
\* ------------------------------------------------------------------------

Rank(sq) == sq \div 9

File(sq) == sq % 9

RuleInPalace(sq) ==
  File(sq) \in 3..5 /\ (Rank(sq) \in 0..2 \/ Rank(sq) \in 7..9)

\* The squares strictly between two squares of one rank or one file.
RuleBetween(from, to) ==
  {s \in Squares :
     \/ /\ Rank(s) = Rank(from) /\ Rank(s) = Rank(to)
        /\ \/ (File(from) < File(s) /\ File(s) < File(to))
           \/ (File(to) < File(s) /\ File(s) < File(from))
     \/ /\ File(s) = File(from) /\ File(s) = File(to)
        /\ \/ (Rank(from) < Rank(s) /\ Rank(s) < Rank(to))
           \/ (Rank(to) < Rank(s) /\ Rank(s) < Rank(from))}

RuleOnLine(from, to) ==
  from # to /\ (Rank(from) = Rank(to) \/ File(from) = File(to))

RuleOccupied(b) == {s \in Squares : b.board[s] # Empty}

\* The piece on `from` reaches `to` by its pattern of movement; `screens` is
\* the number of pieces a cannon must find between the two squares.
RuleReaches(b, from, to, screens) ==
  LET p == b.board[from]
      dr == Rank(to) - Rank(from)
      dc == File(to) - File(from)
  IN CASE abs_val(p) = 1 -> Abs(dr) + Abs(dc) = 1 /\ RuleInPalace(to)
       [] abs_val(p) = 2 -> Abs(dr) = 1 /\ Abs(dc) = 1 /\ RuleInPalace(to)
       [] abs_val(p) = 3 ->
            /\ Abs(dr) = 2 /\ Abs(dc) = 2
            /\ b.board[(from + to) \div 2] = Empty
            /\ IF p > 0 THEN Rank(to) >= 5 ELSE Rank(to) <= 4
       [] abs_val(p) = 4 ->
            \/ Abs(dr) = 2 /\ Abs(dc) = 1 /\ b.board[from + 9 * (dr \div 2)] = Empty
            \/ Abs(dr) = 1 /\ Abs(dc) = 2 /\ b.board[from + (dc \div 2)] = Empty
       [] abs_val(p) = 5 ->
            RuleOnLine(from, to) /\ RuleBetween(from, to) \cap RuleOccupied(b) = {}
       [] abs_val(p) = 6 ->
            /\ RuleOnLine(from, to)
            /\ Cardinality(RuleBetween(from, to) \cap RuleOccupied(b)) = screens
       [] abs_val(p) = 7 ->
            IF p > 0
            THEN \/ dr = -1 /\ dc = 0
                 \/ Rank(from) <= 4 /\ dr = 0 /\ Abs(dc) = 1
            ELSE \/ dr = 1 /\ dc = 0
                 \/ Rank(from) >= 5 /\ dr = 0 /\ Abs(dc) = 1
       [] OTHER -> FALSE

\* A move of the side to move that obeys the rules of movement: onto an empty
\* square, or onto a piece of the other side (a cannon then jumps one screen).
RulePseudoLegal(b, from, to) ==
  /\ b.board[from] # Empty
  /\ player(b.board[from]) = b.player_to_move
  /\ \/ b.board[to] = Empty /\ RuleReaches(b, from, to, 0)
     \/ /\ b.board[to] # Empty
        /\ player(b.board[to]) # b.player_to_move
        /\ RuleReaches(b, from, to, 1)

\* Some piece of `attacker` of the six kinds the attack predicate names
\* could capture on s.
RuleAttacked(b, s, attacker) ==
  \E from \in Squares :
    /\ b.board[from] # Empty
    /\ player(b.board[from]) = attacker
    /\ abs_val(b.board[from]) # 2
    /\ RuleReaches(b, from, s, 1)

KingSquares(b, pl) == {s \in Squares : b.board[s] = (IF pl = "Red" THEN RKing ELSE BKing)}

\* The two kings stand on one file with nothing between them.
RuleKingsFace(b) ==
  \E rk \in KingSquares(b, "Red"), bk \in KingSquares(b, "Black") :
    File(rk) = File(bk) /\ RuleBetween(rk, bk) \cap RuleOccupied(b) = {}

\* The king of pl can be captured: by a piece of any kind, or by the other
\* king along an open file.
RuleCapturable(b, pl) ==
  \/ \E ks \in KingSquares(b, pl), from \in Squares :
       /\ b.board[from] # Empty
       /\ player(b.board[from]) = opponent(pl)
       /\ RuleReaches(b, from, ks, 1)
  \/ RuleKingsFace(b)

\* ------------------------------------------------------------------------
\* Properties of the board operations
\* ------------------------------------------------------------------------

\* The fields a make/unmake pair is to restore (all but the history array).
SameBoard(a, b) ==
  /\ a.hash_key = b.hash_key
  /\ a.piece_bitboards = b.piece_bitboards
  /\ a.color_bitboards = b.color_bitboards
  /\ a.board = b.board
  /\ a.player_to_move = b.player_to_move
  /\ a.history_ply = b.history_ply
  /\ a.material_score = b.material_score
  /\ a.mg_pst_score = b.mg_pst_score
  /\ a.eg_pst_score = b.eg_pst_score

\* C1: move_piece(m) followed by unmove_piece(m, captured), with captured the
\* value move_piece returned, leaves hash_key, the 14 piece bitboards, both
\* colour bitboards, the board array, player_to_move, history_ply and the
\* three score accumulators as they were before the move.
C1_MakeUnmakeRestores ==
  undone.valid => SameBoard(board, undone.before)

\* C1 witness: a capture that generate_legal_moves returns, in a position
\* reached by an earlier move, has been made and unmade.
C1_LegalCaptureUndone ==
  /\ undone.valid
  /\ undone.captured # Empty
  /\ undone.before.history_ply > 0
  /\ undone.mv \in Range(generate_legal_moves(undone.before, <<>>).moves)

\* C2: the three score accumulators equal what calculate_full_scores computes
\* from scratch on the current position.
C2_ScoresMatchFullScores ==
  <<board.material_score, board.mg_pst_score, board.eg_pst_score>>
    = calculate_full_scores(board)

\* C3: is_square_attacked_by(board, s, attacker) holds exactly when a pawn,
\* king, horse, bishop, rook or cannon of attacker reaches s by the rules of
\* movement, for every square and both attackers.
C3_AttackedIffReachable ==
  \A s \in Squares, attacker \in {"Red", "Black"} :
    is_square_attacked_by(board, s, attacker) <=> RuleAttacked(board, s, attacker)

\* The capture moves generate_capture_moves gives the opponent that land on a
\* king of pl.
CapturesOfKing(b, pl) ==
  {mv \in Range(generate_capture_moves(b, <<>>)) : to_sq(mv) \in KingSquares(b, pl)}

\* C4: after a move returned by generate_legal_moves is made, no capture the
\* opponent's generate_capture_moves produces lands on the mover's king, and
\* the kings do not face each other on an open file.
C4_LegalMoveLeavesKingSafe ==
  legal.valid =>
    \A mv \in Range(legal.moves) :
      /\ CapturesOfKing(move_piece(board, mv).b, board.player_to_move) = {}
      /\ ~RuleKingsFace(move_piece(board, mv).b)

\* The board array after the piece on `from` is put on `to`.
RuleAfter(b, from, to) ==
  [b EXCEPT !.board = [s \in Squares |->
                         IF s = from THEN Empty
                         ELSE IF s = to THEN b.board[from]
                         ELSE b.board[s]]]

\* All 90 x 90 pairs filtered by the rules: the move obeys the piece's rule
\* and leaves the mover's king not capturable; with the capture flag.
BruteForceLegal(b) ==
  {<<from, to, b.board[to] # Empty>> :
     <<from, to>> \in {ft \in Squares \X Squares :
                        /\ RulePseudoLegal(b, ft[1], ft[2])
                        /\ ~RuleCapturable(RuleAfter(b, ft[1], ft[2]), b.player_to_move)}}

\* C5: the moves generate_legal_moves returns are, as (from, to, capture
\* flag) triples, exactly the brute-force filter of all 90 x 90 pairs.
C5_LegalMovesAreBruteForce ==
  legal.valid =>
    {<<from_sq(mv), to_sq(mv), is_capture(mv)>> : mv \in Range(legal.moves)}
      = BruteForceLegal(board)

RECURSIVE XorOfKeys(_, _, _)
\* The XOR of the keys of the non-empty squares lo..hi.
XorOfKeys(b, lo, hi) ==
  IF lo > hi THEN {}
  ELSE IF lo = hi
       THEN (IF b.board[lo] # Empty
             THEN ZOBRIST_KEYS(get_zobrist_idx(b.board[lo]), lo \div 9, lo % 9)
             ELSE {})
  ELSE Xor(XorOfKeys(b, lo, (lo + hi) \div 2), XorOfKeys(b, (lo + hi) \div 2 + 1, hi))

\* C6: hash_key is the XOR of the keys of all non-empty squares, XORed with
\* ZOBRIST_PLAYER exactly when Black is to move.
C6_HashIsXorOfKeys ==
  board.hash_key = Xor(XorOfKeys(board, 0, 89),
                       IF board.player_to_move = "Black" THEN ZOBRIST_PLAYER ELSE {})

\* C6 witness: a move, then a capture and the unmove of the capture have been
\* applied.
C6_MoveCaptureUnmove ==
  /\ undone.valid
  /\ undone.captured # Empty
  /\ made # <<>>

\* C7: board[s] = p exactly when s is in the piece bitboard of p; each colour
\* bitboard holds exactly the squares of that side's pieces; the two colour
\* bitboards are disjoint.
C7_BoardAndBitboardsAgree ==
  /\ \A p \in Pieces \ {Empty} :
       board.piece_bitboards[get_bb_index(p)] = {s \in Squares : board.board[s] = p}
  /\ \A pl \in {"Red", "Black"} :
       board.color_bitboards[get_bb_idx(pl)]
         = {s \in Squares : board.board[s] # Empty /\ player(board.board[s]) = pl}
  /\ board.color_bitboards[0] \cap board.color_bitboards[1] = {}

\* C7 witness: Red has just captured a Black piece.
C7_RedHasCaptured ==
  /\ made # <<>>
  /\ made[Len(made)].captured < 0
  /\ board.player_to_move = "Black"
  /\ ~undone.valid


\* ------------------------------------------------------------------------
\* Properties of Engine::search
\* ------------------------------------------------------------------------

SearchHasReturned == search.pc = "returned"

\* C8: when search returns, the board it was given has the squares,
\* bitboards, side to move, hash_key, history_ply and score accumulators it
\* had when search was called, and no call of negamax is left open.
C8_SearchRestoresBoard ==
  SearchHasReturned => (SameBoard(board, trace.entry) /\ stack = <<>>)

\* C8 witness: search has returned after a null move was made, moves were
\* searched with and without reduction, and the time limit stopped the third
\* iteration.
C8_ReturnedAfterNullMoveAndStop ==
  /\ SearchHasReturned
  /\ {"null", "reduction", "research", "cutoff", "stopped"} \subseteq trace.steps
  /\ trace.stopped_in = 3

\* The completed iterations whose move is not the null move.
KeptIterations(iterations) ==
  SelectSeq(iterations, LAMBDA it : from_sq(it.mv) # 0 \/ to_sq(it.mv) # 0)

\* What search holds after the completed iterations: the move, score and
\* depth of the deepest one that found a move, the initial values if none did.
ResultOf(kept) ==
  IF kept = <<>> THEN <<NullMove, -MATE_VALUE, 1>>
  ELSE <<kept[Len(kept)].mv, kept[Len(kept)].score, kept[Len(kept)].depth>>

\* C9, as amended: with no book move, search returns the move and score of
\* the deepest completed iteration that found a move (when stop_search
\* becomes true during iteration d, nothing of iteration d), and the null
\* move with -MATE_VALUE when the completed iterations found none.
C9_ReturnsDeepestKeptIteration ==
  (SearchHasReturned /\ ~trace.book_hit) =>
    search.result = ResultOf(KeptIterations(trace.iterations))

\* C9 witness: the search was stopped in iteration 3 with a move and score
\* computed there that differ from the ones of iteration 2, which it returns.
C9_StoppedInThirdIteration ==
  /\ SearchHasReturned
  /\ trace.stopped_in = 3
  /\ Len(trace.iterations) = 2
  /\ <<trace.partial.mv, trace.partial.score>> # <<search.result[1], search.result[2]>>
  /\ <<trace.iterations[2].mv, trace.iterations[2].score>>
       = <<search.result[1], search.result[2]>>

\* C9 as stated: search returns the move and score of the deepest iteration
\* that ran to completion.
C9_ReturnsDeepestCompletedIteration ==
  (SearchHasReturned /\ ~trace.book_hit /\ trace.iterations # <<>>) =>
    <<search.result[1], search.result[2]>>
      = <<trace.iterations[Len(trace.iterations)].mv,
          trace.iterations[Len(trace.iterations)].score>>

\* C10: for max_depth >= 1 and no book move, when the root has a legal move
\* the move search returns is one of the root's legal moves (and so not the
\* null move), under every time limit.
C10_ReturnsLegalMove ==
  (SearchHasReturned /\ search.max_depth >= 1 /\ ~trace.book_hit
     /\ BruteForceLegal(trace.entry) # {}) =>
    <<from_sq(search.result[1]), to_sq(search.result[1]), is_capture(search.result[1])>>
      \in BruteForceLegal(trace.entry)

\* ------------------------------------------------------------------------
\* Properties of the game
\* ------------------------------------------------------------------------

\* The moves generate_legal_moves listed on the standard opening position.
OpeningListed == made = <<>> /\ legal.valid /\ SameBoard(board, from_fen(FenStart))

\* C14: on the standard opening position, Red to move, generate_legal_moves
\* returns exactly 44 moves.
C14_OpeningHas44Moves == OpeningListed => Len(legal.moves) = 44

\* C14 witness: generate_legal_moves has returned on the opening position,
\* and its list holds cannon captures over a screen and horse moves.
C14_OpeningMovesListed ==
  /\ OpeningListed
  /\ \E i \in 1..Len(legal.moves) :
       is_capture(legal.moves[i]) /\ board.board[from_sq(legal.moves[i])] = RCannon
  /\ \E i \in 1..Len(legal.moves) : board.board[from_sq(legal.moves[i])] = RHorse

\* C15: after any sequence of moves taken from generate_legal_moves the two
\* kings never stand on one file with every square between them empty; and
\* after Red's move from the bare kings facing each other on file d the Red
\* king is not on file d.
C15_KingsNeverFace ==
  /\ made # <<>> => ~RuleKingsFace(board)
  /\ (Len(made) = 1 /\ SameBoard(made[1].before, from_fen(FenKingsFace))) =>
       \A rk \in KingSquares(board, "Red") : File(rk) # 3

\* C15 witness: after a move taken from generate_legal_moves both kings
\* stand on one file, with a piece between them.
C15_KingsShareFile ==
  /\ made # <<>>
  /\ \E rk \in KingSquares(board, "Red"), bk \in KingSquares(board, "Black") :
       File(rk) = File(bk) /\ RuleBetween(rk, bk) \cap RuleOccupied(board) # {}

\* The last move played, with the board before it and what move_piece
\* returned.
LastMade == made[Len(made)]

\* C19: move_piece(m) returns the piece that stood on m's destination (Empty
\* if none), leaves the origin Empty and the destination holding the piece
\* that stood on the origin, flips player_to_move and increments history_ply
\* by exactly one.
C19_MovePieceMovesThePiece ==
  made # <<>> =>
    /\ LastMade.captured = LastMade.before.board[to_sq(LastMade.mv)]
    /\ board.board[from_sq(LastMade.mv)] = Empty
    /\ board.board[to_sq(LastMade.mv)] = LastMade.before.board[from_sq(LastMade.mv)]
    /\ board.player_to_move = opponent(LastMade.before.player_to_move)
    /\ board.history_ply = LastMade.before.history_ply + 1

\* C19 witness: move_piece has made a capture and returned the captured
\* piece.
C19_CaptureMade ==
  /\ made # <<>>
  /\ LastMade.captured # Empty
  /\ LastMade.before.board[from_sq(LastMade.mv)] # Empty

\* ------------------------------------------------------------------------
\* Properties of the cannon
\* ------------------------------------------------------------------------

\* The square of the Red cannon.
CannonSq == trailing_zeros(board.piece_bitboards[get_bb_index(RCannon)])

\* t lies on the ray from s in direction dir.
OnRay(dir, s, t) ==
  CASE dir = North -> File(t) = File(s) /\ Rank(t) < Rank(s)
    [] dir = East -> Rank(t) = Rank(s) /\ File(t) > File(s)
    [] dir = South -> File(t) = File(s) /\ Rank(t) > Rank(s)
    [] dir = West -> Rank(t) = Rank(s) /\ File(t) < File(s)

\* The number of steps between two squares of one rank or file.
Steps(s, t) == Abs(Rank(s) - Rank(t)) + Abs(File(s) - File(t))

\* The square of S nearest to s.
Nearest(s, S) == CHOOSE t \in S : \A u \in S : Steps(s, t) <= Steps(s, u)

\* The destinations of the moves of the list that leave s, capture or quiet.
DestinationsFrom(moves, s, is_cap) ==
  {to_sq(mv) : mv \in {m \in Range(moves) : from_sq(m) = s /\ is_capture(m) = is_cap}}

\* The rule of the cannon on s along one ray, for the list in legal.
CannonRayRule(dir, s) ==
  LET ray == {t \in Squares : OnRay(dir, s, t)}
      blockers == {t \in ray : board.board[t] # Empty}
      quiets == DestinationsFrom(legal.moves, s, FALSE) \cap ray
      captures == DestinationsFrom(legal.moves, s, TRUE) \cap ray
      attacks == get_cannon_moves_bb(s, occupied_bitboard(board)) \cap ray
  IN IF blockers = {}
     THEN quiets = ray /\ captures = {} /\ attacks = ray
     ELSE LET screen == Nearest(s, blockers)
              beyond == blockers \ {screen}
              between == {t \in ray : Steps(s, t) < Steps(s, screen)}
          IN /\ quiets = between
             /\ screen \notin attacks
             /\ IF beyond = {}
                THEN captures = {} /\ attacks = between
                ELSE LET target == Nearest(s, beyond)
                     IN /\ attacks = between \cup {target}
                        /\ captures = IF player(board.board[target]) = "Black"
                                      THEN {target} ELSE {}

\* The pieces standing strictly between two squares of one rank or file.
PiecesBetween(s, t) ==
  {u \in LinesThrough(s) : /\ board.board[u] # Empty
                           /\ \E dir \in 0..3 : OnRay(dir, s, u) /\ OnRay(dir, u, t)}

\* C16: along each of the four rays of a cannon, with no blocker every ray
\* square is a quiet destination; otherwise the quiet destinations are the
\* empty squares before the screen, the screen is not a destination, and the
\* only capture destination is the first occupied square beyond the screen,
\* a capture move being generated iff it holds an enemy piece; so the cannon
\* captures on a square iff that square holds an enemy piece and exactly one
\* piece stands between.
C16_CannonRays ==
  legal.valid =>
    \A s \in {CannonSq} :
      /\ \A dir \in 0..3 : CannonRayRule(dir, s)
      /\ DestinationsFrom(legal.moves, s, TRUE)
           = {t \in LinesThrough(s) : /\ player(board.board[t]) = "Black"
                                      /\ Cardinality(PiecesBetween(s, t)) = 1}

\* C16 (witness): the cannon captures a Black piece over a screen, another
\* piece standing behind the captured one, and has a quiet move on the same
\* ray.
C16_CaptureOverScreen ==
  /\ legal.valid
  /\ \E s \in {CannonSq} : \E dir \in 0..3 :
       \E t \in DestinationsFrom(legal.moves, s, TRUE) :
         /\ OnRay(dir, s, t)
         /\ \E q \in DestinationsFrom(legal.moves, s, FALSE) : OnRay(dir, s, q)
         /\ \E u \in LinesThrough(s) : board.board[u] # Empty /\ OnRay(dir, t, u)

\* ------------------------------------------------------------------------
\* Properties of the transposition table
\* ------------------------------------------------------------------------

\* The slot a hash key indexes.
SlotOf(hash_key) == hash_key % TableCapacity

\* C17: probe(h) returns an entry only if the slot at h mod capacity holds an
\* entry whose stored hash is h, returns nothing when the slot holds an entry
\* for another hash, and an entry returned for h carries the depth, score,
\* flag and best move of a store made for h.
C17_ProbeReturnsStoredEntry ==
  table.last.op = "probe" =>
    \A h \in {table.last.hash_key} :
      /\ table.last.result # {} => table.entries[SlotOf(h)].hash_key = h
      /\ table.entries[SlotOf(h)].hash_key # h => table.last.result = {}
      /\ \A e \in table.last.result : e.hash_key = h /\ e \in table.stores

\* C17 (what does hold): the entry probe returns for h is the one in the slot
\* of h and has the hash h, and probe returns nothing for another hash.
C17_ProbeMatchesSlotHash ==
  table.last.op = "probe" =>
    \A h \in {table.last.hash_key} :
      table.last.result = IF table.entries[SlotOf(h)].hash_key = h
                          THEN {table.entries[SlotOf(h)]} ELSE {}

\* C18: store(h, d, ...) overwrites the slot of h iff d >= the depth of the
\* entry in that slot and otherwise leaves it as it was, every other slot
\* being left alone; between two clear calls the depth held in a slot never
\* decreases.
C18_DepthPreferredReplacement ==
  /\ table.last.op = "store" =>
       \A i \in DOMAIN table.entries :
         table.entries[i] =
           IF i = SlotOf(table.last.hash_key)
              /\ table.last.depth >= table.last.before[i].depth
           THEN table.last.entry
           ELSE table.last.before[i]
  /\ table.last.op \in {"store", "probe"} =>
       \A i \in DOMAIN table.entries :
         table.entries[i].depth >= table.last.before[i].depth

\* C18 (witness): a store of a lower depth has left the entry of another hash
\* in the slot.
C18_ShallowerStoreRefused ==
  /\ table.last.op = "store"
  /\ \E e \in {table.entries[SlotOf(table.last.hash_key)]} :
       /\ e.hash_key # table.last.hash_key
       /\ e.depth > table.last.depth
       /\ e \in table.stores

\* C20: while search runs on a board with one king a side, the board it has
\* made its moves on has exactly one king a side: no move made by the search
\* captures a king.
C20_SearchKeepsBothKings ==
  (/\ search.pc \notin {"idle", "returned"}
   /\ \A king_piece \in {RKing, BKing} :
        Cardinality(trace.entry.piece_bitboards[get_bb_index(king_piece)]) = 1)
    => \A king_piece \in {RKing, BKing} :
         Cardinality(engine.board.piece_bitboards[get_bb_index(king_piece)]) = 1

\* ------------------------------------------------------------------------
\* Properties of the front-end
\* ------------------------------------------------------------------------

\* C11: a "stop" line written after "go" was read and while search was in an
\* iteration before its last is observed by that search: when search
\* returns, stop_search is true and the remaining iterations were not run.
C11_StopEndsSearch ==
  (/\ uci.pc = "go"
   /\ search.pc = "returned"
   /\ ~trace.book_hit
   /\ uci.stop_at \in 1..(search.max_depth - 1))
    => /\ engine.stop_search
       /\ Len(trace.iterations) < search.max_depth

RECURSIVE LegalMovesOnly(_, _)
\* The board after the move strings when the moves that are not in the list
\* of generate_legal_moves are left out.
LegalMovesOnly(b, move_strs) ==
  IF move_strs = <<>> THEN b
  ELSE LET parsed == parse_uci_move(b, Head(move_strs))
       IN IF parsed.some /\ parsed.mv \in Range(generate_legal_moves(b, <<>>).moves)
          THEN LegalMovesOnly(CHOOSE moved \in {move_piece(b, parsed.mv).b} : TRUE,
                              Tail(move_strs))
          ELSE LegalMovesOnly(b, Tail(move_strs))

\* C12: a move of a "position" line that is not a legal move of the position
\* reached so far is ignored: the handler ends normally, and the board it
\* leaves is the board of the legal moves of the line alone.
C12_IllegalMoveIgnored ==
  (/\ uci.last.command = "position"
   /\ uci.last.line.arg = "startpos"
   /\ uci.last.line.moves # <<>>)
    => /\ uci.last.kind = "board"
       /\ board = LegalMovesOnly(from_fen(FenStart), uci.last.line.moves)

\* The characters of a layout field.
FenLetters == {"k", "a", "b", "n", "r", "c", "p", "K", "A", "B", "N", "R", "C", "P"}

RECURSIVE FilesDescribed(_, _)
\* The number of files the characters 1..i of a layout describe in the rank
\* character i belongs to.
FilesDescribed(layout, i) ==
  IF i = 0 \/ layout[i] = "/" THEN 0
  ELSE FilesDescribed(layout, i - 1) + (IF to_digit(layout[i]) >= 0 THEN to_digit(layout[i]) ELSE 1)

\* A position string that is malformed in one of the four ways: an unknown
\* piece letter, no active colour, a rank of more than 9 files, more than 10
\* ranks.
MalformedFen(fen) ==
  \/ Len(fen) < 2
  \/ \E i \in 1..Len(fen[1]) :
       \/ fen[1][i] # "/" /\ to_digit(fen[1][i]) < 0 /\ fen[1][i] \notin FenLetters
       \/ FilesDescribed(fen[1], i) > 9
  \/ Cardinality({i \in 1..Len(fen[1]) : fen[1][i] = "/"}) + 1 > 10

\* C13: from_fen on a malformed position string produces a failure value and
\* no board: the "position" handler neither ends abnormally nor takes a
\* board from it.
C13_MalformedFenFails ==
  (/\ uci.last.command = "position"
   /\ uci.last.line.arg = "fen"
   /\ MalformedFen(uci.last.line.fen))
    => /\ uci.last.kind \notin {"panic", "board"}
       /\ uci.pc # "panicked"
       /\ uci.has_board = uci.last.had_board
       /\ board = uci.last.board_before

\* ------------------------------------------------------------------------
\* Properties of the null move
\* ------------------------------------------------------------------------

\* How many rooks, horses and cannons of player pl stand on the squares of b.
MajorsOnBoard(b, pl) ==
  Cardinality({sq \in Squares :
                 b.board[sq] \in (IF pl = "Red" THEN {RRook, RHorse, RCannon}
                                  ELSE {BRook, BHorse, BCannon})})

\* A call of negamax passes the table probe and the depth test in this step:
\* it makes the null move or starts its move loop.
NodeEntered ==
  /\ search.pc = "negamax"
  /\ stack # <<>>
  /\ Top(stack).pc = "call"
  /\ Len(stack') >= Len(stack)
  /\ stack'[Len(stack)].pc \in {"null", "loop"}

\* The node of the step makes the null move.
NullMoveTried == stack'[Len(stack)].pc = "null"

\* The side to move at the node is not in check, the depth is 3 or more and
\* the side has more than one rook, horse or cannon.
NullMoveDue ==
  /\ ~is_king_in_check(engine.board, engine.board.player_to_move)
  /\ Top(stack).depth >= 3
  /\ MajorsOnBoard(engine.board, engine.board.player_to_move) > 1

\* C21: a node makes the null move exactly when its side to move, Red or
\* Black, is not in check, the depth is at least 3 and the side has more than
\* one rook, horse or cannon; the null-move search is then called with depth
\* - 1 - R, R = 3 for depth > 6 and R = 2 otherwise.
C21_NullMoveExactlyWhenDue ==
  [][NodeEntered =>
       /\ NullMoveTried <=> NullMoveDue
       /\ NullMoveTried =>
            Top(stack').depth
              = Top(stack).depth - 1 - (IF Top(stack).depth > 6 THEN 3 ELSE 2)]_vars

\* ------------------------------------------------------------------------
\* Properties of quiescence_search
\* ------------------------------------------------------------------------

\* C22: no call of quiescence_search made so far has made a move to an empty
\* square and recursed into it: every move quiescence searches is a capture.
C22_QuiescenceSearchesCapturesOnly ==
  "quiescence with a quiet move" \notin trace.steps

\* ------------------------------------------------------------------------
\* Properties of the repetition rule
\* ------------------------------------------------------------------------

\* How many of history[i], history[i - 2], ... down to index 0 or 1 equal the
\* hash key of b.
RECURSIVE MatchesFrom(_, _)
MatchesFrom(b, i) ==
  IF i < 0 THEN 0
  ELSE (IF b.history[i] = b.hash_key THEN 1 ELSE 0) + MatchesFrom(b, i - 2)

\* The earlier occurrences of b's position with the same side to move.
RepetitionMatches(b) == MatchesFrom(b, b.history_ply - 2)

\* A call of negamax at ply > 0 runs from its entry in this step and is not
\* stopped by the time limit.
InnerCallEntered ==
  /\ search.pc = "negamax"
  /\ stack # <<>>
  /\ Top(stack).pc = "call"
  /\ Top(stack).ply > 0
  /\ stack' # stack
  /\ trace'.did # "stopped"

\* The call returned the null move with score 0, the board, the table and
\* the stack below it untouched.
DrawReturned ==
  /\ ret' = [valid |-> TRUE, mv |-> NullMove, score |-> 0]
  /\ stack' = Pop(stack)
  /\ engine'.board = engine.board
  /\ engine'.tt = engine.tt
  /\ engine'.nodes_searched = engine.nodes_searched + 1

\* C23: a call of negamax at ply > 0 returns the repetition draw, score 0
\* without searching, exactly when the hash key equals history[i] for at
\* least two of the indices history_ply - 2, history_ply - 4, ... >= 0.
C23_DrawAtThirdOccurrence ==
  [][InnerCallEntered =>
       /\ (trace'.did = "repetition") <=> (RepetitionMatches(engine.board) >= 2)
       /\ (trace'.did = "repetition") => DrawReturned]_vars

\* C23 witness: a call at ply > 0 has just returned the repetition draw, the
\* null move with score 0, on a position that stands twice before in the
\* history.
C23_ThirdOccurrenceReturned ==
  /\ trace.did = "repetition"
  /\ stack # <<>>
  /\ RepetitionMatches(engine.board) >= 2
  /\ ret = [valid |-> TRUE, mv |-> NullMove, score |-> 0]

\* ------------------------------------------------------------------------
\* Properties of a node without legal moves
\* ------------------------------------------------------------------------

\* A call of negamax with depth >= 1 returns in this step, not stopped by
\* the time limit; the board is then again the board of its node.
NodeReturned ==
  /\ search.pc = "negamax"
  /\ stack # <<>>
  /\ Len(stack') < Len(stack)
  /\ Top(stack).depth >= 1
  /\ trace'.did # "stopped"

\* generate_legal_moves lists no move for the side to move of b.
NoLegalMove(b) == generate_legal_moves(b, <<>>).moves = <<>>

\* C24: a call of negamax with depth >= 1 at a node whose side to move has
\* no legal move returns -MATE_VALUE + ply when that side is in check and 0
\* when it is not.
C24_MateOrStalemateScore ==
  [][(NodeReturned /\ NoLegalMove(engine'.board)) =>
       ret'.score = IF is_king_in_check(engine'.board, engine'.board.player_to_move)
                    THEN -MATE_VALUE + Top(stack).ply ELSE 0]_vars

\* ------------------------------------------------------------------------
\* Properties of the history of hash keys
\* ------------------------------------------------------------------------

\* The last entry of b's history is b's hash key.
HistoryHoldsHash(b) == b.history[b.history_ply] = b.hash_key

\* C25: history[history_ply] equals hash_key on the board search is given
\* (built by from_fen and move_piece) and on the board being searched after
\* every step: after move_piece and unmove_piece in the move loop and after
\* the null move is made and taken back.
C25_HistoryHoldsHash ==
  HistoryHoldsHash(board) /\ HistoryHoldsHash(engine.board)

\* C25 witness: the null move has just been made on the board being
\* searched, in a search that has already made moves and taken them back,
\* and the new last entry of the history differs from the one before it.
C25_NullMoveRecorded ==
  /\ trace.did = "null"
  /\ "scored" \in trace.steps
  /\ engine.board.history_ply > trace.entry.history_ply
  /\ HistoryHoldsHash(engine.board)
  /\ engine.board.history[engine.board.history_ply - 1] # engine.board.hash_key

\* ------------------------------------------------------------------------
\* Properties of the palace and the river
\* ------------------------------------------------------------------------

\* The squares piece may stand on: kings and guards in their own palace
\* (files 3..5; ranks 0..2 for Black, 7..9 for Red), bishops on their own
\* side of the river.
HomeSquares(piece) ==
  CASE piece \in {RKing, RGuard} -> {sq \in Squares : File(sq) \in 3..5 /\ Rank(sq) \in 7..9}
    [] piece \in {BKing, BGuard} -> {sq \in Squares : File(sq) \in 3..5 /\ Rank(sq) \in 0..2}
    [] piece = RBishop -> {sq \in Squares : Rank(sq) \in 5..9}
    [] piece = BBishop -> {sq \in Squares : Rank(sq) \in 0..4}
    [] OTHER -> Squares

\* Every king, guard and bishop of b stands at home.
AllAtHome(b) ==
  \A sq \in Squares : b.board[sq] # Empty => sq \in HomeSquares(b.board[sq])

\* C26: from a position with the kings and guards in their own palaces and
\* the bishops on their own halves, every position after generated moves has
\* them there still.
C26_PalaceAndRiverKept == AllAtHome(board)

\* C26 witness: two generated moves were made; the first took a Red bishop
\* to the rank at the river, where it stands, the second was Black's.
C26_BishopAtTheRiver ==
  /\ ops = MaxPalacePlies
  /\ AllAtHome(made[1].before)
  /\ made[1].before.board[from_sq(made[1].mv)] = RBishop
  /\ Rank(to_sq(made[1].mv)) = 5
  /\ board.board[to_sq(made[1].mv)] = RBishop

\* ------------------------------------------------------------------------
\* Properties of move ordering
\* ------------------------------------------------------------------------

\* The innermost call of negamax has just sorted its moves: the board is the
\* board of its node.
MovesJustSorted ==
  /\ search.pc = "negamax"
  /\ stack # <<>>
  /\ Top(stack).pc = "loop"
  /\ Top(stack).i = 1

\* The moves of the innermost call that go to an occupied square and are not
\* the table move.
CapturesToOrder ==
  {mv \in Range(Top(stack).moves) :
     /\ engine.board.board[to_sq(mv)] # Empty
     /\ ~(from_sq(mv) = from_sq(Top(stack).n.tt_best_move)
          /\ to_sq(mv) = to_sq(Top(stack).n.tt_best_move))}

\* The ordering score the innermost call gave mv.
OrderingScore(mv) == score_move(engine, mv, Top(stack).n.tt_best_move, Top(stack).n.ply)

\* The place of mv in the sorted list.
PlaceOf(mv) == CHOOSE k \in 1..Len(Top(stack).moves) : Top(stack).moves[k] = mv

\* C27: of two captures that are not the table move, the one with the more
\* valuable victim has the strictly higher ordering score, whatever the
\* attackers are, and is searched first.
C27_MostValuableVictimFirst ==
  MovesJustSorted =>
    \A m1, m2 \in CapturesToOrder :
      value(engine.board.board[to_sq(m1)]) > value(engine.board.board[to_sq(m2)])
        => /\ OrderingScore(m1) > OrderingScore(m2)
           /\ PlaceOf(m1) < PlaceOf(m2)

\* ------------------------------------------------------------------------
\* Properties of the entries negamax stores
\* ------------------------------------------------------------------------

\* The innermost call of negamax returns in this step from the end of its
\* move loop, and the table holds a new entry for its node.
EntryStored ==
  /\ search.pc = "negamax"
  /\ stack # <<>>
  /\ Top(stack).pc = "loop"
  /\ Len(stack') < Len(stack)
  /\ trace'.did = "best"
  /\ engine'.tt # engine.tt

\* The entry of the step.
StoredEntry == engine'.tt[engine.board.hash_key]

\* C28: an entry stored with flag Exact has a score strictly above the alpha
\* the move loop started with (alpha after the table probe) and strictly
\* below the beta it ran with.
C28_ExactInsideTheWindowUsed ==
  [][(EntryStored /\ StoredEntry.flag = "Exact") =>
       /\ StoredEntry.score > Top(stack).n.alpha
       /\ StoredEntry.score < Top(stack).n.beta]_vars

\* The same with alpha as it was passed to the call.
C28_ExactInsideTheWindowPassed ==
  [][(EntryStored /\ StoredEntry.flag = "Exact") =>
       /\ StoredEntry.score > Top(stack).n.original_alpha
       /\ StoredEntry.score < Top(stack).n.beta]_vars

\* ------------------------------------------------------------------------
\* Properties of the recursion of negamax
\* ------------------------------------------------------------------------

\* C29: a search called with a finite max_depth and no time limit returns.
C29_SearchTerminates ==
  (search.pc \in {"iterate", "negamax"} /\ engine.time_limit_ms = {})
    ~> (search.pc = "returned")

\* Two calls of negamax are open, one the child of the other, both at nodes
\* whose side to move is in check, the child with the remaining depth of its
\* parent, in a search without a time limit.
C29_CheckAnsweredByCheck ==
  /\ search.pc = "negamax"
  /\ engine.time_limit_ms = {}
  /\ \E p \in 1..(Len(stack) - 1) :
       /\ stack[p].pc \in {"full", "reduced"}
       /\ stack[p].n.is_in_check
       /\ stack[p + 1].pc = "loop"
       /\ stack[p + 1].n.is_in_check
       /\ stack[p + 1].n.depth = stack[p].n.depth

\* ------------------------------------------------------------------------
\* Properties of the history array
\* ------------------------------------------------------------------------

\* C30: history_ply stays below the length of the history array, on the
\* board the collaborator plays on and on the board search works on, so
\* every write history[history_ply] has an index of at most 255.
C30_HistoryIndexInRange ==
  /\ board.history_ply <= MAX_HISTORY - 1
  /\ engine.board.history_ply <= MAX_HISTORY - 1

\* The same for the board search works on, while search runs.
C30_SearchIndexInRange ==
  search.pc = "negamax" => engine.board.history_ply <= MAX_HISTORY - 1

====
